---- MODULE Spec2Model ----
(***************************************************************************)
(* Transport Management System front end: the offline-capable ApiClient    *)
(* (get / post with localStorage fallback), the NotificationManager and    *)
(* the UI controller handlers that call them, as one event-loop state      *)
(* machine.  Every task of the event loop (a handler up to its first       *)
(* await, or the arrival of a response together with the continuation of   *)
(* the awaiting callers up to their next await) is one action.             *)
(*                                                                         *)
(* JavaScript strings on which the code does string operations (endpoint   *)
(* paths, error messages, identifiers, form values) are sequences of       *)
(* one-character strings.  JavaScript values are tagged tuples.            *)
(***************************************************************************)
EXTENDS Integers, Sequences, FiniteSets, TLC

(* ---------------- bounds of the model ---------------- *)
MaxCalls == 2      \* requests issued in one run
MaxPending == 2    \* requests in flight together
MaxClock == 3      \* largest value Date.now() takes

(* ---------------- JavaScript values ---------------- *)
Undefined == <<"undefined">>
Null == <<"null">>
NaN == <<"NaN">>
Infinity == <<"Infinity">>
Num(n) == <<"number", n>>
Str(s) == <<"string", s>>
Arr(items) == <<"array", items>>
Obj(rec) == <<"object", rec>>

IsTruthy(v) == v \notin {Undefined, Null, NaN, Num(0), Str(<<>>)}

\* obj.field : undefined when the object has no such own property
Field(rec, f) == IF f \in DOMAIN rec THEN rec[f] ELSE Undefined

(* ---------------- string literals of the source ---------------- *)
EP_VEHICLES == <<"/","v","e","h","i","c","l","e","s">>
EP_TICKETS == <<"/","t","i","c","k","e","t","s">>
EP_PARCELS == <<"/","p","a","r","c","e","l","s">>
EP_RECEIPTS == <<"/","r","e","c","e","i","p","t","s">>
EP_REPORTS == <<"/","r","e","p","o","r","t","s">>
EP_TRANSACTIONS == <<"/","t","r","a","n","s","a","c","t","i","o","n","s">>
EP_OCCUPANCY == <<"/","v","e","h","i","c","l","e","s","/","v","1","/","o","c","c","u","p","a","n","c","y">>
STR_vehicles == <<"v","e","h","i","c","l","e","s">>
STR_tickets == <<"t","i","c","k","e","t","s">>
STR_parcels == <<"p","a","r","c","e","l","s">>
STR_ECONNREFUSED == <<"E","C","O","N","N","R","E","F","U","S","E","D">>

\* String.prototype.includes
Includes(s, sub) ==
    \E i \in 0..(Len(s) - Len(sub)) : SubSeq(s, i + 1, i + Len(sub)) = sub

\* Number.prototype.toString for a non-negative integer: its decimal digits
Digit(d) == CASE d = 0 -> "0" [] d = 1 -> "1" [] d = 2 -> "2" [] d = 3 -> "3"
              [] d = 4 -> "4" [] d = 5 -> "5" [] d = 6 -> "6" [] d = 7 -> "7"
              [] d = 8 -> "8" [] d = 9 -> "9"

RECURSIVE NumberToString(_)
NumberToString(n) == IF n < 10 THEN <<Digit(n)>>
                     ELSE Append(NumberToString(n \div 10), Digit(n % 10))

\* characters: StrWhiteSpaceChar, decimal digits, [A-Z]
IsWhiteSpace(c) == c \in {" ", "\t"}
IsDigit(c) == c \in {"0", "1", "2", "3", "4", "5", "6", "7", "8", "9"}
IsUpper(c) == c \in {"A", "B", "C", "D", "E", "F", "G", "H", "I", "J", "K", "L", "M",
                     "N", "O", "P", "Q", "R", "S", "T", "U", "V", "W", "X", "Y", "Z"}

\* the value of a string of decimal digits
DigitValue(c) == CHOOSE d \in 0..9 : Digit(d) = c

RECURSIVE StringToNumber(_)
StringToNumber(s) ==
    IF Len(s) = 0 THEN 0
    ELSE 10 * StringToNumber(SubSeq(s, 1, Len(s) - 1)) + DigitValue(s[Len(s)])

\* String.prototype.trim
trim(s) ==
    LET kept == {i \in DOMAIN s : ~IsWhiteSpace(s[i])}
    IN  IF kept = {} THEN <<>>
        ELSE SubSeq(s, CHOOSE i \in kept : \A j \in kept : i <= j,
                       CHOOSE i \in kept : \A j \in kept : i >= j)

\* s without its leading white space, as parseInt and parseFloat skip it
TrimStart(s) ==
    LET kept == {i \in DOMAIN s : ~IsWhiteSpace(s[i])}
    IN  IF kept = {} THEN <<>>
        ELSE SubSeq(s, CHOOSE i \in kept : \A j \in kept : i <= j, Len(s))

\* the longest prefix of s made of decimal digits
DigitPrefix(s) ==
    LET n == CHOOSE k \in 0..Len(s) :
                 /\ \A i \in 1..k : IsDigit(s[i])
                 /\ k < Len(s) => ~IsDigit(s[k + 1])
    IN  SubSeq(s, 1, n)

\* sign and rest of a numeric string: an optional + or - comes first
SignOf(s) == IF Len(s) > 0 /\ s[1] = "-" THEN -1 ELSE 1
Unsigned(s) == IF Len(s) > 0 /\ s[1] \in {"+", "-"} THEN SubSeq(s, 2, Len(s)) ELSE s

\* parseInt(s, 10): NaN when no digit follows the optional sign
parseInt(s) ==
    LET digits == DigitPrefix(Unsigned(TrimStart(s)))
    IN  IF digits = <<>> THEN NaN
        ELSE Num(SignOf(TrimStart(s)) * StringToNumber(digits))

\* a number with a fraction: sign * (int + 0.frac), frac not all zeros
NegInfinity == <<"-Infinity">>
Decimal(sign, int, frac) == <<"number", sign, int, frac>>

STR_Infinity == <<"I","n","f","i","n","i","t","y">>

\* parseFloat(s) for a string without an exponent part: Infinity, digits
\* with an optional fraction, or NaN
parseFloat(s) ==
    LET t == TrimStart(s)
        sign == SignOf(t)
        u == Unsigned(t)
        int == DigitPrefix(u)
        afterInt == SubSeq(u, Len(int) + 1, Len(u))
        frac == IF Len(afterInt) > 0 /\ afterInt[1] = "."
                THEN DigitPrefix(SubSeq(afterInt, 2, Len(afterInt)))
                ELSE <<>>
    IN  IF Len(u) >= Len(STR_Infinity) /\ SubSeq(u, 1, Len(STR_Infinity)) = STR_Infinity
        THEN IF sign = 1 THEN Infinity ELSE NegInfinity
        ELSE IF int = <<>> /\ frac = <<>> THEN NaN
        ELSE IF \A i \in DOMAIN frac : frac[i] = "0"
        THEN Num(sign * StringToNumber(int))
        ELSE Decimal(sign, StringToNumber(int), frac)

isNaN(v) == v = NaN

\* v < n and v > n for a number v and an integer n
LessThan(v, n) ==
    CASE v = NaN -> FALSE
      [] v = Infinity -> FALSE
      [] v = NegInfinity -> TRUE
      [] Len(v) = 2 -> v[2] < n
      [] OTHER -> IF v[2] = 1 THEN v[3] < n ELSE -v[3] <= n
GreaterThan(v, n) ==
    CASE v = NaN -> FALSE
      [] v = Infinity -> TRUE
      [] v = NegInfinity -> FALSE
      [] Len(v) = 2 -> v[2] > n
      [] OTHER -> IF v[2] = 1 THEN v[3] >= n ELSE -v[3] > n

(* ---------------- JSON.stringify / JSON.parse ---------------- *)
\* A value as it comes back from JSON.parse(JSON.stringify(v)) when v is a
\* property value: NaN and Infinity are written as null.
JSONValue(v) == IF v \in {NaN, Infinity} THEN Null ELSE v

\* An object: properties whose value is undefined are omitted.
JSONObject(rec) ==
    [f \in {g \in DOMAIN rec : rec[g] # Undefined} |-> JSONValue(rec[f])]

\* JSON.stringify of an array of objects; the text is represented by the
\* array that JSON.parse gives back for it.
JSONStringify(items) == [i \in DOMAIN items |-> JSONObject(items[i])]
JSONParse(text) == text

(* ---------------- localStorage ---------------- *)
STORAGE_KEYS == [VEHICLES |-> "matatu_vehicles", TICKETS |-> "matatu_tickets",
                 PARCELS |-> "matatu_parcels", RECEIPTS |-> "matatu_receipts",
                 REPORTS |-> "matatu_reports"]

StorageKeyNames == {STORAGE_KEYS[n] : n \in DOMAIN STORAGE_KEYS}

NoKey == "null"                                  \* getStorageKey's null
NoItem == [present |-> FALSE, text |-> <<>>]     \* getItem's null
Item(text) == [present |-> TRUE, text |-> text]

EmptyStorage == [k \in StorageKeyNames |-> NoItem]

\* faulty variant: a path the switch does not list falls into the vehicles
\* collection
getStorageKeyDefaultVehicles(endpoint) ==
    CASE endpoint = EP_TICKETS -> STORAGE_KEYS.TICKETS
      [] endpoint = EP_PARCELS -> STORAGE_KEYS.PARCELS
      [] endpoint = EP_RECEIPTS -> STORAGE_KEYS.RECEIPTS
      [] endpoint = EP_REPORTS -> STORAGE_KEYS.REPORTS
      [] OTHER -> STORAGE_KEYS.VEHICLES

getStorageKey(endpoint) ==
    CASE endpoint = EP_VEHICLES -> STORAGE_KEYS.VEHICLES
      [] endpoint = EP_TICKETS -> STORAGE_KEYS.TICKETS
      [] endpoint = EP_PARCELS -> STORAGE_KEYS.PARCELS
      [] endpoint = EP_RECEIPTS -> STORAGE_KEYS.RECEIPTS
      [] endpoint = EP_REPORTS -> STORAGE_KEYS.REPORTS
      [] OTHER -> NoKey

\* getLocalData: the parsed array, [] when the item is absent
getLocalData(st, key) ==
    IF st[key].present THEN JSONParse(st[key].text) ELSE <<>>

\* faulty variant: the existing array is not read back before the write
saveOverwrite(st, key, data) ==
    [st EXCEPT ![key] = Item(JSONStringify(<<data>>))]

\* faulty variant: a record whose id is already stored replaces the stored one
saveDeduplicate(st, key, data) ==
    LET Other(r) == Field(r, "id") # Field(data, "id")
    IN  [st EXCEPT ![key] =
            Item(JSONStringify(Append(SelectSeq(getLocalData(st, key), Other), data)))]

saveAppend(st, key, data) ==
    [st EXCEPT ![key] = Item(JSONStringify(Append(getLocalData(st, key), data)))]

saveToLocalStorage(st, endpoint, data) ==
    LET key == getStorageKey(endpoint)
    IN  IF key # NoKey THEN saveAppend(st, key, data) ELSE st

\* null, or the parsed array
getFromLocalStorage(st, endpoint) ==
    LET key == getStorageKey(endpoint)
    IN  IF key # NoKey
        THEN IF st[key].present THEN Arr(JSONParse(st[key].text)) ELSE Null
        ELSE Null

\* number of localStorage.getItem calls getFromLocalStorage makes
getFromLocalStorageReads(endpoint) ==
    IF getStorageKey(endpoint) # NoKey THEN 1 ELSE 0

\* faulty variant: the collection is kept for offline use after a sync
syncKeep(st, key) == st

syncRemove(st, key) == [st EXCEPT ![key] = NoItem]

\* faulty variant: the server's result replaces the collection
syncMirror(st, endpoint, data) ==
    LET key == getStorageKey(endpoint)
    IN  IF key # NoKey
        THEN [st EXCEPT ![key] = Item(JSONStringify(<<data[2]>>))]
        ELSE st

syncWithLocalStorage(st, endpoint, data) ==
    LET key == getStorageKey(endpoint)
    IN  IF key # NoKey THEN syncRemove(st, key) ELSE st

(* ---------------- failure causes ---------------- *)
MSG_TIMEOUT == <<"t","i","m","e","o","u","t"," ","o","f"," ","5","0","0","0","m","s"," ","e","x","c","e","e","d","e","d">>
MSG_REFUSED == <<"c","o","n","n","e","c","t"," ","E","C","O","N","N","R","E","F","U","S","E","D"," ","1","2","7",".","0",".","0",".","1",":","5","0","0","0">>
MSG_NETWORK == <<"N","e","t","w","o","r","k"," ","E","r","r","o","r">>
MSG_STATUS == <<"R","e","q","u","e","s","t"," ","f","a","i","l","e","d"," ","w","i","t","h"," ","s","t","a","t","u","s"," ","c","o","d","e">>

NoCode == "undefined"

\* The value caught by `catch (error: any)`: code and response are optional
\* (AxiosError.code?, AxiosError.response?); message is a string on every
\* Error, and absent on a thrown value that is not an Error.
Error(code, hasResponse, status, hasMessage, message) ==
    [code |-> code, hasResponse |-> hasResponse, status |-> status,
     hasMessage |-> hasMessage, message |-> message]

TimeoutError == Error("ECONNABORTED", FALSE, 0, TRUE, MSG_TIMEOUT)
RefusedError == Error("ECONNREFUSED", FALSE, 0, TRUE, MSG_REFUSED)
ZeroStatusError == Error(NoCode, TRUE, 0, TRUE, MSG_NETWORK)
HttpError(status) == Error(NoCode, TRUE, status, TRUE, MSG_STATUS)

\* the failures axios rejects a request with
ConnectivityErrors == {TimeoutError, RefusedError, ZeroStatusError}
HttpStatuses == {404, 500}
RequestErrors == {HttpError(s) : s \in HttpStatuses}
AxiosErrors == ConnectivityErrors \cup RequestErrors

\* faulty variant: the zero-status test is missing
isConnectionErrorIgnoringStatus(error) ==
    IF error.code = "ECONNABORTED" THEN "true"
    ELSE IF ~error.hasMessage THEN "TypeError"
    ELSE IF Includes(error.message, STR_ECONNREFUSED) THEN "true"
    ELSE "false"

\* faulty variant: any response at all counts as a connection error
isConnectionErrorAnyResponse(error) ==
    IF error.code = "ECONNABORTED" THEN "true"
    ELSE IF error.hasResponse THEN "true"
    ELSE IF ~error.hasMessage THEN "TypeError"
    ELSE IF Includes(error.message, STR_ECONNREFUSED) THEN "true"
    ELSE "false"

\* error.code === 'ECONNABORTED' || error.response?.status === 0 ||
\* error.message.includes('ECONNREFUSED'), evaluated left to right:
\* "true", "false", or "TypeError" when message is undefined
isConnectionError(error) ==
    IF error.code = "ECONNABORTED" THEN "true"
    ELSE IF error.hasResponse /\ error.status = 0 THEN "true"
    ELSE IF ~error.hasMessage THEN "TypeError"
    ELSE IF Includes(error.message, STR_ECONNREFUSED) THEN "true"
    ELSE "false"

(* ---------------- NotificationManager ---------------- *)
Toast(type, message) == [type |-> type, message |-> message]

\* the toast elements NotificationManager.show appends to the container
show(containerFound, toast) == IF ~containerFound THEN <<>> ELSE <<toast>>

(* ---------------- ApiClient ---------------- *)
\* faulty variant: the status of the response is not looked at
handleErrorMessageGeneric(error) == "An unexpected error occurred"

\* handleError's message, or "TypeError" when error.message is undefined
\* where the code calls error.message.includes
handleErrorMessage(error) ==
    IF error.hasResponse
    THEN IF error.status = 500 THEN "Server error. Please try again later."
         ELSE IF error.status = 404 THEN "Resource not found."
         ELSE IF error.code = "ECONNABORTED"
              THEN "Request timed out. Please check your connection."
         ELSE "An unexpected error occurred"
    ELSE IF ~error.hasMessage THEN "TypeError"
    ELSE IF Includes(error.message, STR_ECONNREFUSED)
         THEN "Backend unavailable. Using local data."
    ELSE "An unexpected error occurred"

\* The outcome of one ApiClient call:
\*   result  "return" | "throw" (the caught error is re-raised) |
\*           "TypeError" (the catch block itself raised)
\*   class   how the catch block classified the failure ("none" on success)
\*   toasts  toast elements appended during the call, warns console.warn
\*           calls, reads / writes localStorage.getItem / setItem+removeItem
\*           calls, storage localStorage when the call settles
Outcome(result, value, class, toasts, warns, reads, writes, st) ==
    [result |-> result, value |-> value, class |-> class, toasts |-> toasts,
     warns |-> warns, reads |-> reads, writes |-> writes, storage |-> st]

\* this.handleError(error); throw error;
handleErrorAndThrow(containerFound, error, class, reads, st) ==
    LET message == handleErrorMessage(error)
    IN  IF message = "TypeError"
        THEN Outcome("TypeError", Undefined, class, <<>>, 0, reads, 0, st)
        ELSE Outcome("throw", Undefined, class,
                     show(containerFound, Toast("error", message)),
                     0, reads, 0, st)

\* faulty variant: the cache is consulted on every failure, whatever its class
getCacheOnAnyError(containerFound, st, endpoint, response) ==
    IF response.ok
    THEN Outcome("return", response.data, "none", <<>>, 0, 0, 0, st)
    ELSE LET data == getFromLocalStorage(st, endpoint)
             reads == getFromLocalStorageReads(endpoint)
         IN  IF IsTruthy(data)
             THEN Outcome("return", data, "connectivity", <<>>, 1, reads, 0, st)
             ELSE handleErrorAndThrow(containerFound, response.error, "request", reads, st)

\* faulty variant: a successful read of an object is saved in the collection
\* of its path
getCachingAnswer(containerFound, st, endpoint, response) ==
    IF response.ok
    THEN Outcome("return", response.data, "none", <<>>, 0, 0,
                 IF getStorageKey(endpoint) # NoKey THEN 1 ELSE 0,
                 IF response.data[1] = "object"
                 THEN saveToLocalStorage(st, endpoint, response.data[2])
                 ELSE st)
    ELSE LET error == response.error
             conn == isConnectionError(error)
             data == getFromLocalStorage(st, endpoint)
             reads == getFromLocalStorageReads(endpoint)
         IN  IF conn = "TypeError"
             THEN Outcome("TypeError", Undefined, "TypeError", <<>>, 0, 0, 0, st)
             ELSE IF conn = "true"
             THEN IF IsTruthy(data)
                  THEN Outcome("return", data, "connectivity", <<>>, 1, reads, 0, st)
                  ELSE handleErrorAndThrow(containerFound, error, "connectivity", reads, st)
             ELSE handleErrorAndThrow(containerFound, error, "request", 0, st)

\* faulty variant: a successful read refreshes the collection of its path
getWriteThrough(containerFound, st, endpoint, response) ==
    IF response.ok
    THEN Outcome("return", response.data, "none", <<>>, 0, 0,
                 IF getStorageKey(endpoint) # NoKey THEN 1 ELSE 0,
                 IF getStorageKey(endpoint) # NoKey
                 THEN [st EXCEPT ![getStorageKey(endpoint)] = NoItem]
                 ELSE st)
    ELSE LET error == response.error
             conn == isConnectionError(error)
             data == getFromLocalStorage(st, endpoint)
             reads == getFromLocalStorageReads(endpoint)
         IN  IF conn = "TypeError"
             THEN Outcome("TypeError", Undefined, "TypeError", <<>>, 0, 0, 0, st)
             ELSE IF conn = "true"
             THEN IF IsTruthy(data)
                  THEN Outcome("return", data, "connectivity", <<>>, 1, reads, 0, st)
                  ELSE handleErrorAndThrow(containerFound, error, "connectivity", reads, st)
             ELSE handleErrorAndThrow(containerFound, error, "request", 0, st)

\* response: [ok |-> TRUE, data |-> payload] or [ok |-> FALSE, error |-> e]
get(containerFound, st, endpoint, response) ==
    IF response.ok
    THEN Outcome("return", response.data, "none", <<>>, 0, 0, 0, st)
    ELSE LET error == response.error
             conn == isConnectionError(error)
             data == getFromLocalStorage(st, endpoint)
             reads == getFromLocalStorageReads(endpoint)
         IN  IF conn = "TypeError"
             THEN Outcome("TypeError", Undefined, "TypeError", <<>>, 0, 0, 0, st)
             ELSE IF conn = "true"
             THEN IF IsTruthy(data)
                  THEN Outcome("return", data, "connectivity", <<>>, 1, reads, 0, st)
                  ELSE handleErrorAndThrow(containerFound, error, "connectivity", reads, st)
             ELSE handleErrorAndThrow(containerFound, error, "request", 0, st)

\* the identifier field of the mock response
mockKey(endpoint) ==
    IF Includes(endpoint, STR_vehicles) THEN "vehicle_id"
    ELSE IF Includes(endpoint, STR_tickets) THEN "ticket_id"
    ELSE IF Includes(endpoint, STR_parcels) THEN "parcel_id"
    ELSE ""

\* faulty variant: the synthesized id is not put on the stored record
mockDataWithoutId(data, mockId) == data

\* { ...data, id: mockId }
mockData(data, mockId) ==
    [f \in DOMAIN data \cup {"id"} |-> IF f = "id" THEN Str(mockId) ELSE data[f]]

\* now is the value Date.now() returns in the catch block
post(containerFound, st, endpoint, data, response, now) ==
    IF response.ok
    THEN Outcome("return", response.data, "none", <<>>, 0, 0,
                 IF getStorageKey(endpoint) # NoKey THEN 1 ELSE 0,
                 syncWithLocalStorage(st, endpoint, response.data))
    ELSE LET error == response.error
             conn == isConnectionError(error)
             mockId == NumberToString(now)
             mapped == getStorageKey(endpoint) # NoKey
         IN  IF conn = "TypeError"
             THEN Outcome("TypeError", Undefined, "TypeError", <<>>, 0, 0, 0, st)
             ELSE IF conn = "true"
             THEN Outcome("return",
                          Obj([f \in {mockKey(endpoint)} |-> Str(mockId)]),
                          "connectivity", <<>>, 1,
                          IF mapped THEN 1 ELSE 0, IF mapped THEN 1 ELSE 0,
                          saveToLocalStorage(st, endpoint, mockData(data, mockId)))
             ELSE handleErrorAndThrow(containerFound, error, "request", 0, st)

(* ---------------- FormValidator ---------------- *)
\* PHONE_PATTERN.test(s): /^(\+254|0)[17]\d{8}$/
PHONE_PATTERN_test(s) ==
    LET rest == IF Len(s) >= 4 /\ SubSeq(s, 1, 4) = <<"+","2","5","4">>
                THEN SubSeq(s, 5, Len(s))
                ELSE IF Len(s) >= 1 /\ s[1] = "0" THEN SubSeq(s, 2, Len(s))
                ELSE <<>>
    IN  /\ Len(rest) = 9
        /\ rest[1] \in {"1", "7"}
        /\ \A i \in 2..9 : IsDigit(rest[i])

\* faulty variant: the pattern carries the i flag, lower case letters match
PLATE_PATTERN_testIgnoreCase(s) ==
    LET IsLetter(c) == IsUpper(c) \/ c \in {"a", "b", "c", "k"}
    IN  /\ Len(s) = 8
        /\ \A i \in 1..3 : IsLetter(s[i])
        /\ IsWhiteSpace(s[4])
        /\ \A i \in 5..7 : IsDigit(s[i])
        /\ IsLetter(s[8])

\* PLATE_PATTERN.test(s): /^[A-Z]{3}\s[0-9]{3}[A-Z]$/
PLATE_PATTERN_test(s) ==
    /\ Len(s) = 8
    /\ \A i \in 1..3 : IsUpper(s[i])
    /\ IsWhiteSpace(s[4])
    /\ \A i \in 5..7 : IsDigit(s[i])
    /\ IsUpper(s[8])

\* errors: Record<string, string>
NoErrors == [f \in {} |-> ""]
FormValidation(errors) ==
    [isValid |-> Cardinality(DOMAIN errors) = 0, errors |-> errors]

\* if (!value?.trim()) errors[field] = message
RequiredError(value, field, message) ==
    IF trim(value) = <<>> THEN field :> message ELSE NoErrors

\* faulty variant: the pattern is tested on the value as typed
PhoneErrorUntrimmed(value, field, required, format) ==
    IF trim(value) = <<>> THEN field :> required
    ELSE IF ~PHONE_PATTERN_test(value) THEN field :> format
    ELSE NoErrors

\* required, else PHONE_PATTERN tested on the trimmed value
PhoneError(value, field, required, format) ==
    IF trim(value) = <<>> THEN field :> required
    ELSE IF ~PHONE_PATTERN_test(trim(value)) THEN field :> format
    ELSE NoErrors

\* required, else parseFloat: isNaN or < 0
AmountError(value, field, required, format) ==
    IF trim(value) = <<>> THEN field :> required
    ELSE IF isNaN(parseFloat(value)) \/ LessThan(parseFloat(value), 0)
    THEN field :> format
    ELSE NoErrors

validateVehicleForm(formData) ==
    LET name == formData.vehicleName
        numberPlate == formData.numberPlate
        capacity == formData.capacity
        route == formData.route
        capacityNum == parseInt(capacity)
    IN  FormValidation(
            RequiredError(name, "vehicleName", "Vehicle name is required")
            @@ (IF trim(numberPlate) = <<>>
                THEN "numberPlate" :> "Number plate is required"
                ELSE IF ~PLATE_PATTERN_test(trim(numberPlate))
                THEN "numberPlate" :> "Invalid number plate format (e.g., KCA 123A)"
                ELSE NoErrors)
            @@ (IF trim(capacity) = <<>>
                THEN "capacity" :> "Capacity is required"
                ELSE IF isNaN(capacityNum) \/ LessThan(capacityNum, 1)
                        \/ GreaterThan(capacityNum, 100)
                THEN "capacity" :> "Capacity must be between 1 and 100"
                ELSE NoErrors)
            @@ RequiredError(route, "route", "Route is required"))

validateTicketForm(formData) ==
    LET vehicleId == formData.ticketVehicleId
        customerName == formData.customerName
        phoneNumber == formData.phoneNumber
        route == formData.ticketRoute
        amount == formData.ticketAmount
        seatNumber == formData.seatNumber
        cashier == formData.cashier
        seatNum == parseInt(seatNumber)
    IN  FormValidation(
            (IF vehicleId = <<>>
             THEN "ticketVehicleId" :> "Please select a vehicle"
             ELSE NoErrors)
            @@ RequiredError(customerName, "customerName", "Customer name is required")
            @@ PhoneError(phoneNumber, "phoneNumber", "Phone number is required",
                          "Invalid phone number format")
            @@ RequiredError(route, "ticketRoute", "Route is required")
            @@ AmountError(amount, "ticketAmount", "Amount is required",
                           "Amount must be a positive number")
            @@ (IF trim(seatNumber) = <<>>
                THEN "seatNumber" :> "Seat number is required"
                ELSE IF isNaN(seatNum) \/ LessThan(seatNum, 1)
                THEN "seatNumber" :> "Seat number must be a positive integer"
                ELSE NoErrors)
            @@ RequiredError(cashier, "cashier", "Cashier name is required"))

validateParcelForm(formData) ==
    LET description == formData.parcelDescription
        origin == formData.origin
        destination == formData.destination
        charge == formData.charge
        senderName == formData.senderName
        senderPhone == formData.senderPhone
        receiverName == formData.receiverName
        receiverPhone == formData.receiverPhone
    IN  FormValidation(
            RequiredError(description, "parcelDescription", "Description is required")
            @@ RequiredError(origin, "origin", "Origin is required")
            @@ RequiredError(destination, "destination", "Destination is required")
            @@ AmountError(charge, "charge", "Charge is required",
                           "Charge must be a positive number")
            @@ RequiredError(senderName, "senderName", "Sender name is required")
            @@ PhoneError(senderPhone, "senderPhone", "Sender phone is required",
                          "Invalid sender phone format")
            @@ RequiredError(receiverName, "receiverName", "Receiver name is required")
            @@ PhoneError(receiverPhone, "receiverPhone", "Receiver phone is required",
                          "Invalid receiver phone format"))

(* ---------------- what the user types into the forms ---------------- *)
IN_EMPTY == <<>>
IN_BLANK == <<" "," ">>
IN_TEXT == <<"A">>
PHONE_LOCAL == <<"0","7","1","2","3","4","5","6","7","8">>
PHONE_LOCAL1 == <<"0","1","1","2","3","4","5","6","7","8">>
PHONE_INTL == <<"+","2","5","4","7","1","2","3","4","5","6","7","8">>
PHONE_PADDED == <<" ","0","7","1","2","3","4","5","6","7","8"," ">>
PHONE_BADDIGIT == <<"0","8","1","2","3","4","5","6","7","8">>
PHONE_SHORT == <<"0","7","1","2","3","4","5","6","7">>
PHONE_LONG == <<"0","7","1","2","3","4","5","6","7","8","9">>
PHONE_NOPLUS == <<"2","5","4","7","1","2","3","4","5","6","7","8">>
PLATE_OK == <<"K","C","A"," ","1","2","3","A">>
PLATE_PADDED == <<" ","K","C","A"," ","1","2","3","A"," ">>
PLATE_LOWER == <<"k","c","a"," ","1","2","3","a">>
PLATE_NOSPACE == <<"K","C","A","1","2","3","A">>
PLATE_TAB == <<"K","C","A","\t","1","2","3","A">>
PLATE_LONG == <<"K","C","A"," ","1","2","3","A","B">>
NUM_14 == <<"1","4">>
NUM_1 == <<"1">>
NUM_100 == <<"1","0","0">>
NUM_0 == <<"0">>
NUM_101 == <<"1","0","1">>
NUM_ABC == <<"a","b","c">>
NUM_12_5 == <<"1","2",".","5">>
NUM_50ABC == <<"5","0","a","b","c">>
NUM_PADDED7 == <<" ","7">>
NUM_MINUS5 == <<"-","5">>
NUM_50 == <<"5","0">>
NUM_INFINITY == <<"I","n","f","i","n","i","t","y">>
NUM_4 == <<"4">>
NUM_3_7 == <<"3",".","7">>
ID_V1 == <<"v","1">>

TextInputs == {IN_EMPTY, IN_TEXT}
PhoneInputs == {IN_EMPTY, IN_BLANK, PHONE_LOCAL, PHONE_LOCAL1, PHONE_INTL, PHONE_PADDED,
                PHONE_BADDIGIT, PHONE_SHORT, PHONE_LONG, PHONE_NOPLUS}
ParcelPhoneInputs == {IN_EMPTY, IN_BLANK, PHONE_INTL, PHONE_PADDED, PHONE_SHORT}
PlateInputs == {IN_EMPTY, IN_BLANK, PLATE_OK, PLATE_PADDED, PLATE_LOWER, PLATE_NOSPACE,
                PLATE_TAB, PLATE_LONG}
CapacityInputs == {IN_EMPTY, NUM_14, NUM_1, NUM_100, NUM_0, NUM_101, NUM_ABC, NUM_12_5,
                   NUM_50ABC, NUM_PADDED7, NUM_MINUS5}
AmountInputs == {IN_EMPTY, NUM_50, NUM_0, NUM_12_5, NUM_MINUS5, NUM_50ABC, NUM_INFINITY}
SeatInputs == {IN_EMPTY, NUM_4, NUM_0, NUM_3_7, NUM_ABC}

\* new FormData(form) of the three forms
VehicleForms ==
    [vehicleName : {IN_EMPTY, IN_BLANK, IN_TEXT}, numberPlate : PlateInputs,
     capacity : CapacityInputs, route : TextInputs]
TicketForms ==
    [ticketVehicleId : {IN_EMPTY, ID_V1}, customerName : TextInputs,
     phoneNumber : PhoneInputs, ticketRoute : TextInputs,
     ticketAmount : AmountInputs, seatNumber : SeatInputs, cashier : TextInputs]
ParcelForms ==
    [parcelDescription : TextInputs, origin : TextInputs, destination : TextInputs,
     charge : {IN_EMPTY, NUM_50, NUM_MINUS5}, senderName : TextInputs,
     senderPhone : ParcelPhoneInputs, receiverName : TextInputs,
     receiverPhone : ParcelPhoneInputs]

(* ---------------- payloads and server responses ---------------- *)
VehiclePayload == [name |-> Str(<<"N","i","s","s","a","n">>),
                   number_plate |-> Str(<<"K","C","A"," ","1","2","3","A">>),
                   capacity |-> Num(14), route |-> Str(<<"C","B","D">>)]
TicketPayload == [vehicle_id |-> Str(<<"v","1">>), amount |-> Num(50),
                  seat_number |-> Num(4)]
\* parseFloat("Infinity") passes validateTicketForm: an amount of Infinity
InfinityPayload == [vehicle_id |-> Str(<<"v","1">>), amount |-> Infinity,
                    seat_number |-> Num(4)]
\* a payload that has an id property of its own
IdPayload == [id |-> Str(<<"x","7">>), amount |-> Num(50)]

ParcelPayload == [description |-> Str(<<"b","o","x">>), charge |-> Num(20)]

\* the post(endpoint, data) calls and get(endpoint) calls of the model
PostCalls == {<<EP_VEHICLES, VehiclePayload>>, <<EP_TICKETS, TicketPayload>>,
              <<EP_TICKETS, InfinityPayload>>, <<EP_TICKETS, IdPayload>>,
              <<EP_PARCELS, ParcelPayload>>, <<EP_TRANSACTIONS, TicketPayload>>,
              <<EP_OCCUPANCY, VehiclePayload>>}
GetEndpoints == {EP_TICKETS, EP_OCCUPANCY}

ServerVehicle == [id |-> Str(<<"s","1">>), name |-> Str(<<"I","s","u","z","u">>),
                  number_plate |-> Str(<<"K","B","Z"," ","7","7","7","B">>),
                  capacity |-> Num(33), route |-> Str(<<"C","B","D">>)]
ServerReport == Obj([vehicles |-> Num(1),
                     tickets |-> Obj([count |-> Num(2), total_amount |-> Num(100)]),
                     parcels |-> Obj([count |-> Num(0), total_amount |-> Num(0)]),
                     total_revenue |-> Num(100)])

\* what the backend answers a successful request with
ServerData(op, endpoint) ==
    IF op = "get"
    THEN IF endpoint = EP_VEHICLES THEN Arr(<<ServerVehicle>>)
         ELSE IF endpoint = EP_REPORTS THEN ServerReport
         ELSE IF endpoint = EP_TICKETS THEN Arr(<<>>)
         ELSE Obj([capacity |-> Num(33)])
    ELSE Obj([f \in {mockKey(endpoint)} \ {""} |-> Str(<<"s","9">>)])

NoError == Error(NoCode, FALSE, 0, FALSE, <<>>)
Success(data) == [ok |-> TRUE, data |-> data, error |-> NoError]
Failure(error) == [ok |-> FALSE, data |-> Undefined, error |-> error]

Responses(op, endpoint) ==
    {Success(ServerData(op, endpoint))} \cup {Failure(e) : e \in AxiosErrors}

(* ---------------- state ---------------- *)
VARIABLES
    storage,                 \* localStorage: key -> item
    clock,                   \* the last value Date.now() returned
    containerFound,          \* NotificationManager.container is not null
    toasts,                  \* toast elements appended to the container
    pending,                 \* requests in flight, in the order issued
    calls,                   \* requests issued so far
    vehicleSelect,           \* options of vehicleSelect and ticketVehicleSelect
    reportDetails,           \* what reportDetails.innerHTML shows
    generateReportBtnLoading,\* the report button is disabled
    loadingSpinner,          \* the loading spinner is shown
    last,                    \* the ApiClient call that settled last
    formData,                \* the FormData of the form being submitted
    validation,              \* the FormValidation the validator returned for it
    trace,                   \* history: the calls settled so far, in order of completion
    dom                      \* the three forms, the error messages and the receipt outputs

vars == <<storage, clock, containerFound, toasts, pending, calls, vehicleSelect,
          reportDetails, generateReportBtnLoading, loadingSpinner, last,
          formData, validation, trace, dom>>

\* no form has been submitted
NoFormData == [form |-> "none", fields |-> NoErrors]
NoValidation == [done |-> FALSE, isValid |-> FALSE, errors |-> NoErrors]

\* a form as the page shows it: the values of its inputs (none typed) and
\* whether its submit button is disabled
EmptyForm == [values |-> NoErrors, submitBtnLoading |-> FALSE]
\* the page as loaded: empty forms, no error message shown, empty receipts
\* and details
InitialDom ==
    [vehicleForm |-> EmptyForm, ticketForm |-> EmptyForm, parcelForm |-> EmptyForm,
     errorMessages |-> NoErrors, receiptOutput |-> <<>>,
     parcelReceiptOutput |-> <<>>, occupancyDetails |-> [source |-> "none"],
     transactionDetails |-> [source |-> "none"]]

Request(op, endpoint, data, caller) ==
    [op |-> op, endpoint |-> endpoint, data |-> data, caller |-> caller]

NoLast == [op |-> "none", endpoint |-> <<>>, data |-> [id |-> Undefined],
           caller |-> "none", response |-> Success(Undefined),
           result |-> "none", value |-> Undefined, class |-> "none",
           apiToasts |-> <<>>, uiToasts |-> <<>>, warns |-> 0,
           apiReads |-> 0, apiWrites |-> 0, uiReads |-> 0,
           before |-> EmptyStorage, after |-> EmptyStorage]

\* localStorage as an earlier session (page load) left it: nothing; two
\* vehicles queued by offline registrations; or those two vehicles, a ticket
\* and a parcel
PriorVehicles ==
    saveToLocalStorage(
        saveToLocalStorage(EmptyStorage, EP_VEHICLES,
                           mockData(VehiclePayload, NumberToString(0))),
        EP_VEHICLES, mockData(VehiclePayload, NumberToString(1)))
PriorMixed ==
    saveToLocalStorage(
        saveToLocalStorage(PriorVehicles, EP_TICKETS,
                           mockData(InfinityPayload, NumberToString(1))),
        EP_PARCELS, mockData(ParcelPayload, NumberToString(1)))
PriorStorages == {EmptyStorage, PriorVehicles, PriorMixed}

\* The state when the constructor has run: initializeApp has called
\* NotificationManager.init(), which found the toast container, and
\* loadVehicles, whose get('/vehicles') is in flight.
Init ==
    /\ storage \in PriorStorages
    /\ clock = 1
    /\ containerFound = TRUE
    /\ toasts = <<>>
    /\ pending = <<Request("get", EP_VEHICLES, [id |-> Undefined], "initializeApp")>>
    /\ calls = 1
    /\ vehicleSelect = <<>>
    /\ reportDetails = [source |-> "none"]
    /\ generateReportBtnLoading = FALSE
    /\ loadingSpinner = TRUE
    /\ last = NoLast
    /\ formData = NoFormData
    /\ validation = NoValidation
    /\ trace = <<>>
    /\ dom = InitialDom

(* ---------------- UI controller ---------------- *)
\* the <option> elements populateVehicleSelects builds
populateVehicleSelects(vehicles) ==
    [i \in DOMAIN vehicles |->
        [value |-> Field(vehicles[i], "id"),
         text |-> <<Field(vehicles[i], "name"), Field(vehicles[i], "number_plate")>>]]

\* value || []
OrEmptyArray(v) == IF IsTruthy(v) THEN v[2] ELSE <<>>

\* sum + x for a number sum
Plus(sum, x) ==
    CASE sum = NaN -> NaN
      [] sum # NaN /\ x[1] = "number" -> Num(sum[2] + x[2])
      [] sum # NaN /\ x = Null -> sum
      [] sum # NaN /\ x \in {Undefined, NaN} -> NaN

\* items.reduce((sum, t) => sum + t[f], 0)
RECURSIVE ReduceSum(_, _)
ReduceSum(items, f) ==
    IF items = <<>> THEN Num(0)
    ELSE Plus(ReduceSum(SubSeq(items, 1, Len(items) - 1), f),
              Field(items[Len(items)], f))

\* the numbers the report markup shows
ServerReportMarkup(report) ==
    [source |-> "server", vehicles |-> report.vehicles,
     tickets |-> report.tickets[2].count,
     ticketsRevenue |-> report.tickets[2].total_amount,
     parcels |-> report.parcels[2].count,
     parcelsRevenue |-> report.parcels[2].total_amount,
     total |-> Plus(report.tickets[2].total_amount, report.parcels[2].total_amount)]

LocalReportMarkup(st) ==
    LET localVehicles == OrEmptyArray(getFromLocalStorage(st, EP_VEHICLES))
        localTickets == OrEmptyArray(getFromLocalStorage(st, EP_TICKETS))
        localParcels == OrEmptyArray(getFromLocalStorage(st, EP_PARCELS))
        ticketsRevenue == ReduceSum(localTickets, "amount")
        parcelsRevenue == ReduceSum(localParcels, "charge")
    IN  [source |-> "local", vehicles |-> Num(Len(localVehicles)),
         tickets |-> Num(Len(localTickets)), ticketsRevenue |-> ticketsRevenue,
         parcels |-> Num(Len(localParcels)), parcelsRevenue |-> parcelsRevenue,
         total |-> IF ticketsRevenue = NaN \/ parcelsRevenue = NaN THEN NaN
                   ELSE Plus(ticketsRevenue, parcelsRevenue)]

\* What the awaiting caller does when its ApiClient call has settled with
\* outcome o, up to the caller's next await:
\*   toasts shown, getFromLocalStorage reads, the new UI state, the requests
\*   the caller issues before that await, and the new state of the forms
Continuation(uiToasts, uiReads, select, report, loading, spinner) ==
    [toasts |-> uiToasts, reads |-> uiReads, vehicleSelect |-> select,
     reportDetails |-> report, generateReportBtnLoading |-> loading,
     loadingSpinner |-> spinner, requests |-> <<>>, dom |-> dom]

\* loadVehicles ignoring a response that arrives after the selects were filled
loadVehiclesContinueFirstWins(o, report, loading, spinner) ==
    IF vehicleSelect # <<>>
    THEN Continuation(<<>>, 0, vehicleSelect, report, loading, spinner)
    ELSE IF o.result = "return"
    THEN Continuation(<<>>, 0, populateVehicleSelects(o.value[2]), report, loading,
                      spinner)
    ELSE Continuation(
            show(containerFound,
                 Toast("error", "Failed to load vehicles. Using local data.")),
            getFromLocalStorageReads(EP_VEHICLES),
            populateVehicleSelects(
                OrEmptyArray(getFromLocalStorage(o.storage, EP_VEHICLES))),
            report, loading, spinner)

\* loadVehicles after `await this.api.get('/vehicles')`
loadVehiclesContinue(o, report, loading, spinner) ==
    IF o.result = "return"
    THEN Continuation(<<>>, 0, populateVehicleSelects(o.value[2]), report, loading,
                      spinner)
    ELSE Continuation(
            show(containerFound,
                 Toast("error", "Failed to load vehicles. Using local data.")),
            getFromLocalStorageReads(EP_VEHICLES),
            populateVehicleSelects(
                OrEmptyArray(getFromLocalStorage(o.storage, EP_VEHICLES))),
            report, loading, spinner)

\* handleReportGeneration after `await this.api.get('/reports')`; a value
\* that is not a report object makes the markup template raise inside try
handleReportGenerationContinue(o, select, spinner) ==
    IF o.result = "return" /\ o.value[1] = "object"
    THEN Continuation(
            show(containerFound, Toast("success", "Report generated successfully")),
            0, select, ServerReportMarkup(o.value[2]), FALSE, spinner)
    ELSE Continuation(
            show(containerFound, Toast("error", "Failed to generate report")),
            getFromLocalStorageReads(EP_VEHICLES)
                + getFromLocalStorageReads(EP_TICKETS)
                + getFromLocalStorageReads(EP_PARCELS),
            select, LocalReportMarkup(o.storage), FALSE, spinner)

\* initializeApp after `await this.loadVehicles()`: LoadingManager.hide()
initializeAppContinue(o, report, loading) ==
    loadVehiclesContinue(o, report, loading, FALSE)

(* ---- the form handlers after their awaits ---- *)
STR_undefined == <<"u","n","d","e","f","i","n","e","d">>

\* `${value}` in a template literal
TemplateString(v) ==
    CASE v[1] = "string" -> v[2]
      [] v[1] = "number" -> NumberToString(v[2])
      [] OTHER -> STR_undefined

\* a toast whose message is `${message}${id}`
ToastWithId(type, message, id) == [type |-> type, message |-> message, id |-> id]

\* FormValidator.displayErrors: every error message is cleared, then the
\* message of each field of errors is shown
displayErrors(errors) == errors

\* the payloads the handlers build from the FormData
vehicleData(fields) ==
    [name |-> Str(fields.vehicleName), number_plate |-> Str(fields.numberPlate),
     capacity |-> parseInt(fields.capacity), route |-> Str(fields.route)]
ticketData(fields) ==
    [vehicle_id |-> Str(fields.ticketVehicleId),
     customer_name |-> Str(fields.customerName),
     phone_number |-> Str(fields.phoneNumber), route |-> Str(fields.ticketRoute),
     amount |-> parseFloat(fields.ticketAmount),
     seat_number |-> parseInt(fields.seatNumber), cashier |-> Str(fields.cashier)]
parcelData(fields) ==
    [description |-> Str(fields.parcelDescription), origin |-> Str(fields.origin),
     destination |-> Str(fields.destination), charge |-> parseFloat(fields.charge),
     sender_name |-> Str(fields.senderName), sender_phone |-> Str(fields.senderPhone),
     receiver_name |-> Str(fields.receiverName),
     receiver_phone |-> Str(fields.receiverPhone)]

\* `/receipts/${ticket.receipt_id}`
ReceiptPath(ticket) ==
    EP_RECEIPTS \o <<"/">> \o TemplateString(Field(ticket, "receipt_id"))

\* nothing but the forms changes and no toast is shown
Quiet == Continuation(<<>>, 0, vehicleSelect, reportDetails, generateReportBtnLoading,
                      loadingSpinner)

\* faulty variant: the catch block also resets the form
HandlerFailedResetting(form, message) ==
    [Continuation(show(containerFound, Toast("error", message)), 0, vehicleSelect,
                  reportDetails, generateReportBtnLoading, loadingSpinner)
        EXCEPT !.dom = [dom EXCEPT ![form] = EmptyForm]]

\* the catch and finally blocks of a form handler: the error carries no
\* response body, so the handler's own message is shown
HandlerFailed(form, message) ==
    [Continuation(show(containerFound, Toast("error", message)), 0, vehicleSelect,
                  reportDetails, generateReportBtnLoading, loadingSpinner)
        EXCEPT !.dom = [dom EXCEPT ![form].submitBtnLoading = FALSE]]

\* handleVehicleRegistration after `await this.api.post('/vehicles', ...)`:
\* success toast, form.reset(), displayErrors({}), then loadVehicles up to
\* its await
handleVehicleRegistrationContinue(o) ==
    IF o.result = "return" /\ o.value[1] = "object"
    THEN [Continuation(
              show(containerFound,
                   ToastWithId("success", "Vehicle registered successfully! ID: ",
                               TemplateString(Field(o.value[2], "vehicle_id")))),
              0, vehicleSelect, reportDetails, generateReportBtnLoading,
              loadingSpinner)
            EXCEPT !.dom = [dom EXCEPT !.vehicleForm.values = NoErrors,
                                       !.errorMessages = displayErrors(NoErrors)],
                   !.requests = <<Request("get", EP_VEHICLES, o.value[2],
                                          "handleVehicleRegistration.loadVehicles")>>]
    ELSE HandlerFailed("vehicleForm", "Error: Failed to register vehicle")

\* handleVehicleRegistration after `await this.loadVehicles()`, which never
\* raises: the finally block
handleVehicleRegistrationRefreshed(o) ==
    [loadVehiclesContinue(o, reportDetails, generateReportBtnLoading, loadingSpinner)
        EXCEPT !.dom = [dom EXCEPT !.vehicleForm.submitBtnLoading = FALSE]]

\* a handler after `await this.api.post(...)` of a ticket or parcel: the
\* receipt is requested, the posted record being kept in the handler
ReceiptRequested(o, caller) ==
    [Quiet EXCEPT !.requests =
        <<Request("get", ReceiptPath(o.value[2]), o.value[2], caller)>>]

\* a handler after `await this.api.get('/receipts/...')`: the receipt is
\* shown, success toast, form.reset(), displayErrors({}), finally block
ReceiptShown(o, form, output, message, id) ==
    [Continuation(show(containerFound, ToastWithId("success", message, id)), 0,
                  vehicleSelect, reportDetails, generateReportBtnLoading,
                  loadingSpinner)
        EXCEPT !.dom = [dom EXCEPT ![form] = EmptyForm,
                                   ![output] = Field(o.value[2], "receipt"),
                                   !.errorMessages = displayErrors(NoErrors)]]

\* handleTicketIssuance after `await this.api.post('/tickets', ticketData)`
handleTicketIssuanceContinue(o) ==
    IF o.result = "return" /\ o.value[1] = "object"
    THEN ReceiptRequested(o, "handleTicketIssuance.receipt")
    ELSE HandlerFailed("ticketForm", "Error: Failed to issue ticket")

\* handleTicketIssuance after its second await; ticket is the posted record
handleTicketIssuanceReceipt(o, ticket) ==
    IF o.result = "return" /\ o.value[1] = "object"
    THEN ReceiptShown(o, "ticketForm", "receiptOutput",
                      "Ticket issued successfully! ID: ",
                      TemplateString(Field(ticket, "ticket_id")))
    ELSE HandlerFailed("ticketForm", "Error: Failed to issue ticket")

\* handleParcelPosting after `await this.api.post('/parcels', parcelData)`
handleParcelPostingContinue(o) ==
    IF o.result = "return" /\ o.value[1] = "object"
    THEN ReceiptRequested(o, "handleParcelPosting.receipt")
    ELSE HandlerFailed("parcelForm", "Error: Failed to post parcel")

\* handleParcelPosting after its second await; parcel is the posted record
handleParcelPostingReceipt(o, parcel) ==
    IF o.result = "return" /\ o.value[1] = "object"
    THEN ReceiptShown(o, "parcelForm", "parcelReceiptOutput",
                      "Parcel posted successfully! ID: ",
                      TemplateString(Field(parcel, "parcel_id")))
    ELSE HandlerFailed("parcelForm", "Error: Failed to post parcel")

\* `/vehicles/${vehicleId}/occupancy` and `/transactions?period=${period}`
OccupancyPath(vehicleId) ==
    EP_VEHICLES \o <<"/">> \o vehicleId \o <<"/","o","c","c","u","p","a","n","c","y">>
TransactionsPath(period) ==
    EP_TRANSACTIONS \o <<"?","p","e","r","i","o","d","=">> \o period

\* vehicles.find(v => v.id === vehicleId)
FindVehicle(vehicles, vehicleId) ==
    LET found == {n \in DOMAIN vehicles : Field(vehicles[n], "id") = Str(vehicleId)}
    IN  IF found = {} THEN Undefined
        ELSE Obj(vehicles[CHOOSE n \in found : \A m \in found : n <= m])

\* handleOccupancyCheck after `await this.api.get(...)`: the markup of the
\* answer; an answer without its seat lists raises inside the try block, and
\* the catch block shows the locally stored vehicle of that id, if any
handleOccupancyCheckContinue(o, vehicleId) ==
    IF /\ o.result = "return" /\ o.value[1] = "object"
       /\ Field(o.value[2], "occupied_seats")[1] = "array"
       /\ Field(o.value[2], "available_seats")[1] = "array"
    THEN [Quiet EXCEPT !.dom =
            [dom EXCEPT !.occupancyDetails =
                [source |-> "server", capacity |-> Field(o.value[2], "capacity")]]]
    ELSE LET vehicle == FindVehicle(OrEmptyArray(getFromLocalStorage(o.storage,
                                                                     EP_VEHICLES)),
                                    vehicleId)
         IN  [Continuation(
                  show(containerFound,
                       Toast("error", "Failed to fetch vehicle occupancy")),
                  getFromLocalStorageReads(EP_VEHICLES), vehicleSelect,
                  reportDetails, generateReportBtnLoading, loadingSpinner)
                EXCEPT !.dom =
                    IF vehicle = Undefined THEN dom
                    ELSE [dom EXCEPT !.occupancyDetails =
                            [source |-> "local",
                             capacity |-> Field(vehicle[2], "capacity")]]]

\* handleTransactionPeriodChange after `await this.api.get(...)`: the markup
\* of the answer; on failure '/transactions' has no collection, so nothing
\* local is shown
handleTransactionPeriodChangeContinue(o) ==
    IF /\ o.result = "return" /\ o.value[1] = "object"
       /\ Field(o.value[2], "transactions")[1] = "array"
    THEN [Quiet EXCEPT !.dom =
            [dom EXCEPT !.transactionDetails =
                [source |-> "server",
                 count |-> Len(Field(o.value[2], "transactions")[2])]]]
    ELSE Continuation(
            show(containerFound, Toast("error", "Failed to fetch transaction data")),
            getFromLocalStorageReads(EP_TRANSACTIONS), vehicleSelect, reportDetails,
            generateReportBtnLoading, loadingSpinner)

\* data is what the caller keeps across the await
Continue(caller, o, data) ==
    CASE caller = "initializeApp" ->
            initializeAppContinue(o, reportDetails, generateReportBtnLoading)
      [] caller = "loadVehicles" ->
            loadVehiclesContinue(o, reportDetails, generateReportBtnLoading,
                                 loadingSpinner)
      [] caller = "handleReportGeneration" ->
            handleReportGenerationContinue(o, vehicleSelect, loadingSpinner)
      [] caller = "handleVehicleRegistration" -> handleVehicleRegistrationContinue(o)
      [] caller = "handleVehicleRegistration.loadVehicles" ->
            handleVehicleRegistrationRefreshed(o)
      [] caller = "handleTicketIssuance" -> handleTicketIssuanceContinue(o)
      [] caller = "handleTicketIssuance.receipt" ->
            handleTicketIssuanceReceipt(o, data)
      [] caller = "handleParcelPosting" -> handleParcelPostingContinue(o)
      [] caller = "handleParcelPosting.receipt" ->
            handleParcelPostingReceipt(o, data)
      [] caller = "handleOccupancyCheck" ->
            handleOccupancyCheckContinue(o, data.vehicleId)
      [] caller = "handleTransactionPeriodChange" ->
            handleTransactionPeriodChangeContinue(o)
      [] OTHER ->
            Continuation(<<>>, 0, vehicleSelect, reportDetails,
                         generateReportBtnLoading, loadingSpinner)

(* ---------------- actions ---------------- *)
CanIssue == calls < MaxCalls /\ Len(pending) < MaxPending

Issue(request) ==
    /\ CanIssue
    /\ pending' = Append(pending, request)
    /\ calls' = calls + 1

\* some code calls ApiClient.getInstance().get(endpoint)
ApiGet(endpoint) ==
    /\ Issue(Request("get", endpoint, [id |-> Undefined], "direct"))
    /\ UNCHANGED <<storage, clock, containerFound, toasts, vehicleSelect,
                   reportDetails, generateReportBtnLoading, loadingSpinner, last,
                   formData, validation, trace, dom>>

\* some code calls ApiClient.getInstance().post(endpoint, data)
ApiPost(endpoint, data) ==
    /\ Issue(Request("post", endpoint, data, "direct"))
    /\ UNCHANGED <<storage, clock, containerFound, toasts, vehicleSelect,
                   reportDetails, generateReportBtnLoading, loadingSpinner, last,
                   formData, validation, trace, dom>>

\* loadVehicles up to its await, called by switchTab for the occupancy and
\* ticket tabs
loadVehicles ==
    /\ Issue(Request("get", EP_VEHICLES, [id |-> Undefined], "loadVehicles"))
    /\ UNCHANGED <<storage, clock, containerFound, toasts, vehicleSelect,
                   reportDetails, generateReportBtnLoading, loadingSpinner, last,
                   formData, validation, trace, dom>>

\* a click on the report button: handleReportGeneration up to its await
handleReportGeneration ==
    /\ ~generateReportBtnLoading
    /\ Issue(Request("get", EP_REPORTS, [id |-> Undefined], "handleReportGeneration"))
    /\ generateReportBtnLoading' = TRUE
    /\ UNCHANGED <<storage, clock, containerFound, toasts, vehicleSelect,
                   reportDetails, loadingSpinner, last, formData, validation,
                   trace, dom>>

RemoveAt(seq, i) == SubSeq(seq, 1, i - 1) \o SubSeq(seq, i + 1, Len(seq))

\* the values Date.now() can return next: time does not run backwards
Nows == {t \in clock..(clock + 1) : t <= MaxClock}

\* The response of the i-th request in flight arrives: the rest of
\* ApiClient.get / post runs, then the caller's continuation.
SettleCall(i, response, now) ==
    LET r == pending[i]
        o == IF r.op = "get"
             THEN get(containerFound, storage, r.endpoint, response)
             ELSE post(containerFound, storage, r.endpoint, r.data, response, now)
        c == Continue(r.caller, o, r.data)
    IN  /\ storage' = o.storage
        /\ clock' = now
        /\ toasts' = toasts \o o.toasts \o c.toasts
        /\ pending' = RemoveAt(pending, i) \o c.requests
        /\ calls' = calls + Len(c.requests)
        /\ dom' = c.dom
        /\ vehicleSelect' = c.vehicleSelect
        /\ reportDetails' = c.reportDetails
        /\ generateReportBtnLoading' = c.generateReportBtnLoading
        /\ loadingSpinner' = c.loadingSpinner
        /\ last' = [op |-> r.op, endpoint |-> r.endpoint, data |-> r.data,
                    caller |-> r.caller, response |-> response,
                    result |-> o.result, value |-> o.value, class |-> o.class,
                    apiToasts |-> o.toasts, uiToasts |-> c.toasts,
                    warns |-> o.warns, apiReads |-> o.reads,
                    apiWrites |-> o.writes, uiReads |-> c.reads,
                    before |-> storage, after |-> o.storage]
        /\ UNCHANGED <<containerFound, formData, validation>>

Settle(i, response, now) == SettleCall(i, response, now) /\ UNCHANGED trace

\* the same step with the history kept: the call, its position among the
\* requests in flight (1 is the oldest) and the requests it leaves in flight
SettleTraced(i, response, now) ==
    /\ SettleCall(i, response, now)
    /\ trace' = Append(trace, [call |-> last', position |-> i, inFlight |-> pending'])

\* Date.now() is read only in post's connectivity fallback
ReadsClock(r, response) ==
    r.op = "post" /\ ~response.ok /\ isConnectionError(response.error) = "true"

SettleAny ==
    \E i \in 1..Len(pending) :
        \E response \in Responses(pending[i].op, pending[i].endpoint) :
            \E now \in (IF ReadsClock(pending[i], response) THEN Nows ELSE {clock}) :
                Settle(i, response, now)

Next ==
    \/ \E endpoint \in GetEndpoints : ApiGet(endpoint)
    \/ \E c \in PostCalls : ApiPost(c[1], c[2])
    \/ loadVehicles
    \/ handleReportGeneration
    \/ SettleAny

Spec == Init /\ [][Next]_vars

(* ---------------- properties ---------------- *)
MappedEndpoints == {EP_VEHICLES, EP_TICKETS, EP_PARCELS, EP_RECEIPTS, EP_REPORTS}

\* the call that settled last failed with a failure of the given set
LastFailed(op, errors) ==
    /\ last.op = op
    /\ ~last.response.ok
    /\ last.response.error \in errors

\* the array a load of the endpoint's collection returns after the last call
LoadedAfterLast == OrEmptyArray(getFromLocalStorage(last.after, last.endpoint))

\* the identifier field the resource path fixes
IdentifierField(endpoint) ==
    CASE endpoint = EP_VEHICLES -> "vehicle_id"
      [] endpoint = EP_TICKETS -> "ticket_id"
      [] endpoint = EP_PARCELS -> "parcel_id"

IsNonEmptyString(v) == v[1] = "string" /\ Len(v[2]) > 0

\* C1 (as stated): for every payload, a post to /tickets, /vehicles or
\* /parcels that fails with a connectivity failure returns an object whose
\* identifier field is a non-empty string, and a load of the collection then
\* contains a record that carries every field of the payload unchanged and
\* whose id equals the returned identifier.
C1_EveryPayloadUnchanged ==
    (LastFailed("post", ConnectivityErrors)
        /\ last.endpoint \in {EP_VEHICLES, EP_TICKETS, EP_PARCELS})
    => /\ last.result = "return"
       /\ IsNonEmptyString(Field(last.value[2], IdentifierField(last.endpoint)))
       /\ \E i \in DOMAIN LoadedAfterLast :
            /\ Field(LoadedAfterLast[i], "id")
                   = Field(last.value[2], IdentifierField(last.endpoint))
            /\ \A f \in DOMAIN last.data :
                   Field(LoadedAfterLast[i], f) = last.data[f]

\* a property value that JSON text represents as it is
IsJSONRepresentable(v) == v[1] \in {"string", "number"}

\* C1 (amended): the returned identifier is a non-empty string and the
\* collection then contains a record whose id equals it and that carries
\* unchanged every payload field other than id whose value is a string or a
\* finite number.
C1_RepresentableFieldsUnchanged ==
    (LastFailed("post", ConnectivityErrors)
        /\ last.endpoint \in {EP_VEHICLES, EP_TICKETS, EP_PARCELS})
    => /\ last.result = "return"
       /\ IsNonEmptyString(Field(last.value[2], IdentifierField(last.endpoint)))
       /\ \E i \in DOMAIN LoadedAfterLast :
            /\ Field(LoadedAfterLast[i], "id")
                   = Field(last.value[2], IdentifierField(last.endpoint))
            /\ \A f \in DOMAIN last.data \ {"id"} :
                   IsJSONRepresentable(last.data[f])
                       => Field(LoadedAfterLast[i], f) = last.data[f]

\* the scenario of the specification: /tickets, amount 50, seat 4, offline
C1_Witness ==
    /\ LastFailed("post", ConnectivityErrors)
    /\ last.endpoint = EP_TICKETS
    /\ last.data = TicketPayload
    /\ last.result = "return"
    /\ \E i \in DOMAIN LoadedAfterLast : LoadedAfterLast[i].amount = Num(50)

\* C2: a get on a mapped path that fails with a connectivity failure while
\* the collection holds a persisted sequence returns exactly that sequence
\* and does not re-raise.
C2_GetFallsBackToCache ==
    (LastFailed("get", ConnectivityErrors)
        /\ last.endpoint \in MappedEndpoints
        /\ last.before[getStorageKey(last.endpoint)].present)
    => /\ last.result = "return"
       /\ last.value = Arr(last.before[getStorageKey(last.endpoint)].text)

C2_Witness ==
    /\ LastFailed("get", {ZeroStatusError})
    /\ last.endpoint = EP_VEHICLES
    /\ last.result = "return"
    /\ Len(last.value[2]) = 2
    /\ last.value[2][1] # last.value[2][2]

\* C3: right after a post to a mapped path succeeds the path's collection is
\* absent whatever it held before, and every other collection is unchanged.
C3_SuccessfulPostClearsCollection ==
    (last.op = "post" /\ last.response.ok /\ last.endpoint \in MappedEndpoints)
    => /\ ~last.after[getStorageKey(last.endpoint)].present
       /\ \A k \in StorageKeyNames \ {getStorageKey(last.endpoint)} :
              last.after[k] = last.before[k]

C3_Witness ==
    /\ last.op = "post" /\ last.response.ok
    /\ last.endpoint = EP_VEHICLES
    /\ last.before[STORAGE_KEYS.VEHICLES].present
    /\ Len(last.before[STORAGE_KEYS.VEHICLES].text) >= 2
    /\ ~last.after[STORAGE_KEYS.VEHICLES].present
    /\ last.after[STORAGE_KEYS.TICKETS].present

\* the toasts shown for the last call, by ApiClient and then by its caller
LastToasts == last.apiToasts \o last.uiToasts

\* C4: a get that fails with HTTP status 500 re-raises the error and emits
\* exactly one error notification, the server-side one; it returns no value.
\* The toast the catching handler adds carries another message.
C4_ServerErrorRaisesWithOneToast ==
    LastFailed("get", {HttpError(500)})
    => /\ last.result = "throw"
       /\ last.value = Undefined
       /\ last.apiToasts = <<Toast("error", "Server error. Please try again later.")>>
       /\ Cardinality({i \in DOMAIN LastToasts :
              LastToasts[i].message = "Server error. Please try again later."}) = 1

C4_Witness ==
    /\ LastFailed("get", {HttpError(500)})
    /\ last.endpoint = EP_REPORTS
    /\ last.result = "throw"
    /\ Len(last.apiToasts) = 1

\* C5 (as stated): every failed request, of either class, get or post,
\* has produced exactly one user-visible notification when its caller has
\* handled it.
C5_ExactlyOneNotification ==
    (last.op # "none" /\ ~last.response.ok)
    => Len(LastToasts) = 1

\* the identifier the mock response of the last call carries
LastIdentifiers == {last.value[2][f] : f \in DOMAIN last.value[2]}

\* the last call appended one record to its collection, with that identifier
LastQueuedLocally ==
    /\ Len(LoadedAfterLast)
           = Len(OrEmptyArray(getFromLocalStorage(last.before, last.endpoint))) + 1
    /\ Field(LoadedAfterLast[Len(LoadedAfterLast)], "id") \in LastIdentifiers

\* C6 (as stated): a post that fails with a connectivity failure never
\* propagates an error: for every endpoint and payload it returns normally
\* with a synthesized identifier after queuing the record locally.
C6_ReturnsAfterQueuing ==
    LastFailed("post", ConnectivityErrors)
    => /\ last.result = "return"
       /\ LastIdentifiers = {Str(NumberToString(clock))}
       /\ LastQueuedLocally

\* C6 (amended): it returns normally with a synthesized identifier for every
\* endpoint and payload; the record is queued locally when the endpoint is
\* one of the five mapped paths, and nothing is stored otherwise.
C6_ReturnsAndQueuesWhenMapped ==
    LastFailed("post", ConnectivityErrors)
    => /\ last.result = "return"
       /\ LastIdentifiers = {Str(NumberToString(clock))}
       /\ IF last.endpoint \in MappedEndpoints
          THEN LastQueuedLocally
          ELSE last.after = last.before

C6_Witness ==
    /\ LastFailed("post", {RefusedError})
    /\ last.endpoint = EP_VEHICLES
    /\ last.result = "return"
    /\ Len(LoadedAfterLast) = 3

\* C7: a post that fails with a received HTTP error status emits an error
\* notification and re-raises, and every collection is left as it was.
C7_RequestFailureLeavesCache ==
    LastFailed("post", RequestErrors)
    => /\ last.result = "throw"
       /\ Len(last.apiToasts) = 1
       /\ last.apiToasts[1].type = "error"
       /\ last.apiWrites = 0
       /\ last.after = last.before

C7_Witness ==
    /\ LastFailed("post", RequestErrors)
    /\ last.endpoint = EP_VEHICLES
    /\ last.before[STORAGE_KEYS.VEHICLES].present
    /\ last.result = "throw"

\* C8 (as stated): while a request failure (4xx/5xx) is handled the Local
\* Cache is never read or written, through to the point where the UI
\* controller has finished handling the re-raised error.
C8_CacheNeverTouched ==
    (last.op # "none" /\ ~last.response.ok /\ last.response.error \in RequestErrors)
    => /\ last.apiReads = 0 /\ last.uiReads = 0
       /\ last.apiWrites = 0 /\ last.after = last.before

\* C8 (amended): while a request failure is handled the Local Cache is never
\* written and ApiClient.get / post never read it; the UI controller's catch
\* block does read it afterwards (loadVehicles one collection,
\* handleReportGeneration three).
C8_CacheNeverWrittenNorReadByApi ==
    (last.op # "none" /\ ~last.response.ok /\ last.response.error \in RequestErrors)
    => /\ last.apiReads = 0
       /\ last.apiWrites = 0 /\ last.after = last.before
       /\ last.caller \in {"initializeApp", "loadVehicles"} => last.uiReads = 1
       /\ last.caller = "handleReportGeneration" => last.uiReads = 3
       /\ last.caller = "direct" => last.uiReads = 0

C8_Witness ==
    /\ LastFailed("get", {HttpError(500)})
    /\ last.caller = "handleReportGeneration"
    /\ last.uiReads = 3
    /\ last.before[STORAGE_KEYS.VEHICLES].present
    /\ reportDetails.source = "local"

(* ---- classification over every value a catch block can receive ---- *)
\* code present or not, response present or not, message present or not
ThrownValues ==
    {Error(c, r[1], r[2], m[1], m[2]) :
        c \in {NoCode, "ECONNABORTED"},
        r \in {<<FALSE, 0>>, <<TRUE, 0>>, <<TRUE, 500>>},
        m \in {<<FALSE, <<>>>>, <<TRUE, <<>>>>, <<TRUE, MSG_REFUSED>>}}

SettleThrown ==
    \E i \in 1..Len(pending) :
        \E e \in ThrownValues :
            \E now \in (IF ReadsClock(pending[i], Failure(e)) THEN Nows ELSE {clock}) :
                Settle(i, Failure(e), now)

NextAny ==
    \/ \E endpoint \in {EP_VEHICLES, EP_TRANSACTIONS} : ApiGet(endpoint)
    \/ ApiPost(EP_TICKETS, TicketPayload)
    \/ SettleThrown

SpecAny == Init /\ [][NextAny]_vars

\* C9 (as stated): for every failure cause, with or without a response, an
\* error code or a message, get and post classify the failure as exactly one
\* of connectivity failure or server/application failure, and classifying
\* never itself raises a different error.
C9_ClassificationTotal ==
    (last.op # "none" /\ ~last.response.ok)
    => /\ last.class \in {"connectivity", "request"}
       /\ last.result \in {"return", "throw"}

\* C10 (as stated): the result of a post that fell back to the local cache
\* contains only the identifier field fixed by the resource path, and no
\* identifier field at all for a path that is none of these.
C10_OnlyTheIdentifierField ==
    (LastFailed("post", ConnectivityErrors) /\ last.endpoint # EP_OCCUPANCY)
    => DOMAIN last.value[2]
           = IF last.endpoint \in {EP_VEHICLES, EP_TICKETS, EP_PARCELS}
             THEN {IdentifierField(last.endpoint)}
             ELSE {}

\* the array a load of the endpoint's collection returned before the last call
LoadedBeforeLast == OrEmptyArray(getFromLocalStorage(last.before, last.endpoint))

\* the record the last post handed to saveToLocalStorage
LastSavedRecord == mockData(last.data, NumberToString(clock))

\* the last call saved a record under a mapped path
LastSaved ==
    LastFailed("post", ConnectivityErrors) /\ last.endpoint \in MappedEndpoints

\* C11 (as stated): for every mapped path and every record, a load after a
\* save returns the sequence stored before the save with the new record
\* appended as its last element.
C11_SaveThenLoadAppendsRecord ==
    LastSaved => LoadedAfterLast = Append(LoadedBeforeLast, LastSavedRecord)

\* C11 (amended): a load after a save returns the sequence stored before the
\* save, the earlier records kept in order, with the new record as JSON text
\* represents it appended last (a NaN or Infinity property reads back as
\* null, an undefined property is dropped); a record whose id is already
\* stored is appended all the same.
C11_SaveThenLoadAppendsJSONRecord ==
    LastSaved
    => /\ LoadedAfterLast = Append(LoadedBeforeLast, JSONObject(LastSavedRecord))
       /\ \A f \in DOMAIN LastSavedRecord :
              IsJSONRepresentable(LastSavedRecord[f])
                  => LoadedAfterLast[Len(LoadedAfterLast)][f] = LastSavedRecord[f]

\* a record is saved whose id a stored record already carries
C11_Witness ==
    /\ LastSaved
    /\ last.endpoint = EP_VEHICLES
    /\ Len(LoadedBeforeLast) = 2
    /\ Len(LoadedAfterLast) = 3
    /\ LoadedAfterLast[2].id = LoadedAfterLast[3].id

\* the paths of the model that getStorageKey's switch does not list
UnmappedEndpoints == {EP_TRANSACTIONS, EP_OCCUPANCY}

\* C12: for a path with no collection mapping a save (post's offline
\* fallback) changes no persisted collection, and a load returns null
\* whatever the collections contain, so that a get that fails with a
\* connectivity failure finds nothing and re-raises.
C12_UnmappedPathLeavesCache ==
    /\ \A endpoint \in UnmappedEndpoints :
           getFromLocalStorage(storage, endpoint) = Null
    /\ (last.op # "none" /\ last.endpoint \in UnmappedEndpoints)
       => /\ last.after = last.before
          /\ last.apiWrites = 0
          /\ last.apiReads = 0
          /\ LoadedAfterLast = <<>>
    /\ (LastFailed("get", ConnectivityErrors) /\ last.endpoint \in UnmappedEndpoints)
       => last.result = "throw"

\* an offline post to /transactions while collections hold records
C12_Witness ==
    /\ LastFailed("post", ConnectivityErrors)
    /\ last.endpoint = EP_TRANSACTIONS
    /\ last.result = "return"
    /\ last.before[STORAGE_KEYS.VEHICLES].present
    /\ last.before[STORAGE_KEYS.TICKETS].present
    /\ storage = last.before

\* s.startsWith(prefix)
StartsWith(s, prefix) ==
    Len(s) >= Len(prefix) /\ SubSeq(s, 1, Len(prefix)) = prefix

\* the collection of the mapped path the endpoint starts with, if any
PrefixKey(endpoint) ==
    IF \E p \in MappedEndpoints : StartsWith(endpoint, p)
    THEN getStorageKey(CHOOSE p \in MappedEndpoints : StartsWith(endpoint, p))
    ELSE NoKey

\* the collections the last call read or wrote, as its storage accesses and
\* its effect show
LastTouchedKeys ==
    {k \in StorageKeyNames :
        \/ last.after[k] # last.before[k]
        \/ /\ last.apiReads + last.apiWrites > 0
           /\ k = getStorageKey(last.endpoint)}

\* C13 (as stated): the collection key is resolved by path prefix: a call on
\* a path that starts with a mapped path works on that path's collection,
\* and only a path with no such prefix is uncacheable.
C13_ResolvedByPrefix ==
    (last.op # "none" /\ ~last.response.ok
        /\ last.response.error \in ConnectivityErrors)
    => /\ getStorageKey(last.endpoint) = PrefixKey(last.endpoint)
       /\ PrefixKey(last.endpoint) # NoKey
              => LastTouchedKeys = {PrefixKey(last.endpoint)}

(* ---- one session on a fresh profile: offline posts one after another ---- *)
MaxSessionCalls == 3    \* requests issued in one session, the startup get included

\* localStorage holds nothing when the page loads
InitSession == Init /\ storage = EmptyStorage

\* a form handler calls ApiClient.getInstance().post(endpoint, data)
SessionPost(endpoint, data) ==
    /\ calls < MaxSessionCalls
    /\ Len(pending) < MaxPending
    /\ pending' = Append(pending, Request("post", endpoint, data, "direct"))
    /\ calls' = calls + 1
    /\ UNCHANGED <<storage, clock, containerFound, toasts, vehicleSelect,
                   reportDetails, generateReportBtnLoading, loadingSpinner, last,
                   formData, validation, trace, dom>>

NextSession ==
    \/ \E c \in {<<EP_TICKETS, TicketPayload>>, <<EP_VEHICLES, VehiclePayload>>} :
           SessionPost(c[1], c[2])
    \/ SettleAny

SpecSession == InitSession /\ [][NextSession]_vars

\* C14 (as stated): within one session, which started with nothing stored,
\* the identifier an offline post synthesizes differs from, and is strictly
\* greater than, the identifier of every record queued in the collection by
\* an earlier offline post, whatever the timing of the calls.
C14_FallbackIdsDistinctAndIncreasing ==
    LastSaved
    => \A i \in 1..(Len(LoadedAfterLast) - 1) :
           /\ LoadedAfterLast[i].id # LoadedAfterLast[Len(LoadedAfterLast)].id
           /\ StringToNumber(LoadedAfterLast[i].id[2])
                  < StringToNumber(LoadedAfterLast[Len(LoadedAfterLast)].id[2])

\* C15 (as stated): when a get is answered from the Local Cache after a
\* connectivity failure, exactly one warning notification is shown to the
\* user through the NotificationManager.
C15_CacheAnswerShowsOneWarning ==
    (LastFailed("get", ConnectivityErrors) /\ last.result = "return")
    => /\ Len(last.apiToasts) = 1
       /\ last.apiToasts[1].type = "warning"
       /\ Cardinality({i \in DOMAIN LastToasts : LastToasts[i].type = "warning"}) = 1

\* the last call was a post to a mapped path that the server accepted
LastSynced ==
    last.op = "post" /\ last.response.ok /\ last.endpoint \in MappedEndpoints

\* C16 (as stated): after a post to a mapped path succeeds, the server's
\* result is in the Local Cache under the path's collection key, so that a
\* following load of the collection yields it.
C16_ServerResultMirrored ==
    LastSynced
    => \E i \in DOMAIN LoadedAfterLast : Obj(LoadedAfterLast[i]) = last.response.data

\* C16 (amended): after a post to a mapped path succeeds, the server's
\* result is returned to the caller and stored nowhere: the path's
\* collection is removed, so a following load of it yields null.
C16_ServerResultReturnedNotStored ==
    LastSynced
    => /\ last.result = "return"
       /\ last.value = last.response.data
       /\ getFromLocalStorage(last.after, last.endpoint) = Null
       /\ \A k \in StorageKeyNames :
              \A i \in DOMAIN last.after[k].text :
                  Obj(last.after[k].text[i]) # last.response.data

\* the server accepts a ticket while a ticket queued offline is stored
C16_Witness ==
    /\ LastSynced
    /\ last.endpoint = EP_TICKETS
    /\ IsNonEmptyString(Field(last.value[2], "ticket_id"))
    /\ getFromLocalStorage(last.before, EP_TICKETS) # Null
    /\ getFromLocalStorage(storage, EP_TICKETS) = Null

\* C17: a get that the server answers returns the decoded payload unchanged,
\* leaves every collection as it was, reading and writing none, and neither
\* shows a notification nor writes a warning.
C17_SuccessfulGetHasNoSideEffect ==
    (last.op = "get" /\ last.response.ok)
    => /\ last.result = "return"
       /\ last.value = last.response.data
       /\ last.after = last.before
       /\ storage = last.before
       /\ last.apiReads = 0 /\ last.apiWrites = 0
       /\ last.apiToasts = <<>>
       /\ last.warns = 0

\* the startup get('/vehicles') is answered while collections hold records
C17_Witness ==
    /\ last.op = "get" /\ last.response.ok
    /\ last.endpoint = EP_VEHICLES
    /\ last.value = Arr(<<ServerVehicle>>)
    /\ last.before[STORAGE_KEYS.VEHICLES].present
    /\ storage[STORAGE_KEYS.VEHICLES] = last.before[STORAGE_KEYS.VEHICLES]
    /\ Len(vehicleSelect) = 1

\* what the last call would have come to had its request been refused
\* instead, in the same state and at the same time
LastOutcomeIfRefused ==
    IF last.op = "get"
    THEN get(containerFound, last.before, last.endpoint, Failure(RefusedError))
    ELSE post(containerFound, last.before, last.endpoint, last.data,
              Failure(RefusedError), clock)

\* C18 (as stated): a request that timed out comes to the same result (the
\* same fallback value or the same re-raise), the same cache contents and the
\* same notification as a refused connection does for the same endpoint and
\* the same cache contents.
C18_TimeoutHandledLikeRefused ==
    (LastFailed("get", {TimeoutError}) \/ LastFailed("post", {TimeoutError}))
    => /\ last.result = LastOutcomeIfRefused.result
       /\ last.value = LastOutcomeIfRefused.value
       /\ last.after = LastOutcomeIfRefused.storage
       /\ last.apiToasts = LastOutcomeIfRefused.toasts

(* ---- the validators applied to what the user typed into one form ---- *)
\* a submit event: new FormData(form) of the vehicle, ticket or parcel form
SubmittedForms ==
    {[form |-> "vehicle", fields |-> f] : f \in VehicleForms}
    \cup {[form |-> "ticket", fields |-> f] : f \in TicketForms}
    \cup {[form |-> "parcel", fields |-> f] : f \in ParcelForms}

InitForms ==
    /\ storage = EmptyStorage
    /\ clock = 1
    /\ containerFound = TRUE
    /\ toasts = <<>>
    /\ pending = <<Request("get", EP_VEHICLES, [id |-> Undefined], "initializeApp")>>
    /\ calls = 1
    /\ vehicleSelect = <<>>
    /\ reportDetails = [source |-> "none"]
    /\ generateReportBtnLoading = FALSE
    /\ loadingSpinner = TRUE
    /\ last = NoLast
    /\ formData \in SubmittedForms
    /\ validation = NoValidation
    /\ trace = <<>>
    /\ dom = InitialDom

\* const validation = FormValidator.validate...Form(formData), once per submit
Validated(result) ==
    /\ ~validation.done
    /\ validation' = [done |-> TRUE, isValid |-> result.isValid, errors |-> result.errors]
    /\ UNCHANGED <<storage, clock, containerFound, toasts, pending, calls,
                   vehicleSelect, reportDetails, generateReportBtnLoading,
                   loadingSpinner, last, formData, trace, dom>>

\* FormValidator.validateVehicleForm / validateTicketForm / validateParcelForm
\* is applied to the submitted data
ValidateVehicle ==
    formData.form = "vehicle" /\ Validated(validateVehicleForm(formData.fields))

ValidateTicket ==
    formData.form = "ticket" /\ Validated(validateTicketForm(formData.fields))

ValidateParcel ==
    formData.form = "parcel" /\ Validated(validateParcelForm(formData.fields))

NextForms ==
    \/ ValidateVehicle
    \/ ValidateTicket
    \/ ValidateParcel

SpecForms == InitForms /\ [][NextForms]_vars

\* the constraints of the fields, written on the value without surrounding
\* white space: a numeral is a string of digits, a decimal numeral has an
\* optional fraction
IsNumeral(s) == Len(s) > 0 /\ \A i \in DOMAIN s : IsDigit(s[i])
IsDecimalNumeral(s) ==
    \/ IsNumeral(s)
    \/ \E i \in DOMAIN s :
           /\ s[i] = "."
           /\ IsNumeral(SubSeq(s, 1, i - 1))
           /\ IsNumeral(SubSeq(s, i + 1, Len(s)))
IsIntegerWithin(s, low, high) ==
    IsNumeral(trim(s)) /\ StringToNumber(trim(s)) \in low..high
IsIntegerFrom(s, low) == IsNumeral(trim(s)) /\ StringToNumber(trim(s)) >= low
IsNonNegativeNumber(s) == IsDecimalNumeral(trim(s))
MatchingPhones == {PHONE_LOCAL, PHONE_LOCAL1, PHONE_INTL}
MatchingPlates == {PLATE_OK, PLATE_TAB}
IsNonEmpty(s) == trim(s) # <<>>

\* for each field of the submitted form, whether its value meets the
\* constraint of the field
FieldConforms ==
    LET f == formData.fields
    IN  CASE formData.form = "vehicle" ->
                [vehicleName |-> IsNonEmpty(f.vehicleName),
                 numberPlate |-> trim(f.numberPlate) \in MatchingPlates,
                 capacity |-> IsIntegerWithin(f.capacity, 1, 100),
                 route |-> IsNonEmpty(f.route)]
          [] formData.form = "ticket" ->
                [ticketVehicleId |-> IsNonEmpty(f.ticketVehicleId),
                 customerName |-> IsNonEmpty(f.customerName),
                 phoneNumber |-> trim(f.phoneNumber) \in MatchingPhones,
                 ticketRoute |-> IsNonEmpty(f.ticketRoute),
                 ticketAmount |-> IsNonNegativeNumber(f.ticketAmount),
                 seatNumber |-> IsIntegerFrom(f.seatNumber, 1),
                 cashier |-> IsNonEmpty(f.cashier)]
          [] formData.form = "parcel" ->
                [parcelDescription |-> IsNonEmpty(f.parcelDescription),
                 origin |-> IsNonEmpty(f.origin),
                 destination |-> IsNonEmpty(f.destination),
                 charge |-> IsNonNegativeNumber(f.charge),
                 senderName |-> IsNonEmpty(f.senderName),
                 senderPhone |-> trim(f.senderPhone) \in MatchingPhones,
                 receiverName |-> IsNonEmpty(f.receiverName),
                 receiverPhone |-> trim(f.receiverPhone) \in MatchingPhones]

\* the fields of the submitted form whose constraint is violated
ViolatedFields == {k \in DOMAIN FieldConforms : ~FieldConforms[k]}

\* C19 (as stated): each validator reports every violated field constraint
\* in one pass: the fields of the errors map it returns are exactly the
\* fields whose constraint is violated, and isValid is true exactly when
\* that map is empty.
C19_ErrorsAreTheViolatedFields ==
    validation.done
    => /\ DOMAIN validation.errors = ViolatedFields
       /\ validation.isValid <=> (DOMAIN validation.errors = {})

\* the phone fields of the submitted form and their two messages
PhoneFields ==
    CASE formData.form = "ticket" -> {"phoneNumber"}
      [] formData.form = "parcel" -> {"senderPhone", "receiverPhone"}
      [] OTHER -> {}
PhoneRequiredMessage ==
    [phoneNumber |-> "Phone number is required",
     senderPhone |-> "Sender phone is required",
     receiverPhone |-> "Receiver phone is required"]
PhoneFormatMessage ==
    [phoneNumber |-> "Invalid phone number format",
     senderPhone |-> "Invalid sender phone format",
     receiverPhone |-> "Invalid receiver phone format"]

\* the error of the field in the returned map, "" when it has none
ErrorOf(field) ==
    IF field \in DOMAIN validation.errors THEN validation.errors[field] ELSE ""

\* C20 (as stated): for every phone field, an input that matches
\* ^(\+254|0)[17]\d{8}$ yields no error for the field, an empty input yields
\* the 'required' error, and every other input yields the format error.
C20_PhoneJudgedAsTyped ==
    validation.done
    => \A field \in PhoneFields :
           ErrorOf(field)
               = CASE formData.fields[field] \in MatchingPhones -> ""
                   [] formData.fields[field] = <<>> -> PhoneRequiredMessage[field]
                   [] OTHER -> PhoneFormatMessage[field]

\* C20 (amended): the input is judged without its leading and trailing white
\* space: if what remains matches the pattern the field has no error, if
\* nothing remains it has the 'required' error, and otherwise it has the
\* format error.
C20_PhoneJudgedAfterTrim ==
    validation.done
    => \A field \in PhoneFields :
           ErrorOf(field)
               = CASE trim(formData.fields[field]) \in MatchingPhones -> ""
                   [] trim(formData.fields[field]) = <<>> -> PhoneRequiredMessage[field]
                   [] OTHER -> PhoneFormatMessage[field]

\* a parcel whose sender phone is a valid number between spaces and whose
\* receiver phone is spaces only
C20_Witness ==
    /\ validation.done
    /\ formData.form = "parcel"
    /\ formData.fields.senderPhone = PHONE_PADDED
    /\ formData.fields.receiverPhone = IN_BLANK
    /\ "senderPhone" \notin DOMAIN validation.errors
    /\ ErrorOf("receiverPhone") = "Receiver phone is required"

\* the vehicle form has been validated
VehicleValidated == validation.done /\ formData.form = "vehicle"

\* C21 (as stated): the number plate is accepted exactly when the input
\* matches ^[A-Z]{3}\s[0-9]{3}[A-Z]$; every other non-empty input, one with
\* leading or trailing white space or of white space only included, yields
\* the plate format error.
C21_PlateJudgedAsTyped ==
    VehicleValidated
    => ErrorOf("numberPlate")
           = CASE formData.fields.numberPlate \in MatchingPlates -> ""
               [] formData.fields.numberPlate = <<>> -> "Number plate is required"
               [] OTHER -> "Invalid number plate format (e.g., KCA 123A)"

\* C21 (amended): the number plate is judged without its leading and
\* trailing white space: it is accepted exactly when what remains matches
\* the pattern, an input of white space only yields the 'required' error
\* like the empty input, and every other input yields the format error.
C21_PlateJudgedAfterTrim ==
    VehicleValidated
    => ErrorOf("numberPlate")
           = CASE trim(formData.fields.numberPlate) \in MatchingPlates -> ""
               [] trim(formData.fields.numberPlate) = <<>> -> "Number plate is required"
               [] OTHER -> "Invalid number plate format (e.g., KCA 123A)"

\* ' KCA 123A ' is accepted: the form is valid
C21_Witness ==
    /\ VehicleValidated
    /\ formData.fields.numberPlate = PLATE_PADDED
    /\ validation.isValid
    /\ validation.errors = NoErrors

\* the capacity error the validator returns for the submitted vehicle form
\* with another capacity typed in
CapacityErrorFor(capacity) ==
    LET v == validateVehicleForm([formData.fields EXCEPT !.capacity = capacity])
    IN  IF "capacity" \in DOMAIN v.errors THEN v.errors.capacity ELSE ""

\* C22 (as stated): the capacity is accepted exactly when the input denotes
\* an integer in [1,100]; 0, 101, a non-numeric string (one with a numeric
\* prefix such as '50abc' or '12.5' included) and the empty input are
\* rejected, each of the four cases with a message of its own.
C22_CapacityIntegerInRange ==
    VehicleValidated
    => /\ (ErrorOf("capacity") = "") <=> IsIntegerWithin(formData.fields.capacity, 1, 100)
       /\ \A c \in {NUM_0, NUM_101, NUM_ABC, NUM_50ABC, NUM_12_5, IN_EMPTY} :
              CapacityErrorFor(c) # ""
       /\ Cardinality({CapacityErrorFor(c) : c \in {NUM_0, NUM_101, NUM_ABC, IN_EMPTY}}) = 4

(* ---- posts to one collection in flight together, with the history kept ---- *)
MaxRaceCalls == 3    \* requests issued in one run, the startup get included

\* ticket forms are submitted one after another without waiting
RacePost(data) ==
    /\ calls < MaxRaceCalls
    /\ Len(pending) < MaxPending
    /\ pending' = Append(pending, Request("post", EP_TICKETS, data, "direct"))
    /\ calls' = calls + 1
    /\ UNCHANGED <<storage, clock, containerFound, toasts, vehicleSelect,
                   reportDetails, generateReportBtnLoading, loadingSpinner, last,
                   formData, validation, trace, dom>>

\* the server answers, or the request times out
RaceResponses(op, endpoint) ==
    {Success(ServerData(op, endpoint)), Failure(TimeoutError)}

RaceSettle ==
    \E i \in 1..Len(pending) :
        \E response \in RaceResponses(pending[i].op, pending[i].endpoint) :
            \E now \in (IF ReadsClock(pending[i], response) THEN Nows ELSE {clock}) :
                SettleTraced(i, response, now)

NextRace ==
    \/ \E data \in {TicketPayload, InfinityPayload, IdPayload} : RacePost(data)
    \/ RaceSettle

SpecRace == InitSession /\ [][NextRace]_vars

\* the request of a settled call
RequestOf(call) == Request(call.op, call.endpoint, call.data, call.caller)

\* the k-th settled call was in flight when the j-th one settled
InFlightTogether(j, k) ==
    /\ j < k
    /\ \E n \in DOMAIN trace[j].inFlight :
           trace[j].inFlight[n] = RequestOf(trace[k].call)

IsFallbackPost(call) ==
    /\ call.op = "post" /\ ~call.response.ok
    /\ call.response.error \in ConnectivityErrors
IsSuccessfulPost(call) == call.op = "post" /\ call.response.ok

\* the record a fallback post queued: the payload with the id it returned
QueuedRecord(call) ==
    JSONObject(mockData(call.data, call.value[2][mockKey(call.endpoint)][2]))

\* the records of the endpoint's collection in a localStorage
Loaded(st, endpoint) == OrEmptyArray(getFromLocalStorage(st, endpoint))
Holds(st, endpoint, record) ==
    \E n \in DOMAIN Loaded(st, endpoint) : Loaded(st, endpoint)[n] = record

\* C23: of two posts to one collection that are in flight together, one
\* falling back to the cache and one succeeding, the one that completes last
\* decides: when the success completes after the record was queued the
\* record is dropped from the cache, its own request having failed, and no
\* collection holds it; when the success completes first the queued record
\* is in the collection.
C23_CompletionOrderDecides ==
    \A j, k \in DOMAIN trace :
        (InFlightTogether(j, k) /\ trace[j].call.endpoint = trace[k].call.endpoint)
        => /\ (IsFallbackPost(trace[j].call) /\ IsSuccessfulPost(trace[k].call)
                   /\ Holds(trace[k].call.before, trace[j].call.endpoint,
                            QueuedRecord(trace[j].call)))
              => /\ getFromLocalStorage(trace[k].call.after, trace[k].call.endpoint) = Null
                 /\ \A e \in MappedEndpoints :
                        ~Holds(trace[k].call.after, e, QueuedRecord(trace[j].call))
           /\ (IsSuccessfulPost(trace[j].call) /\ IsFallbackPost(trace[k].call))
              => Holds(trace[k].call.after, trace[k].call.endpoint,
                       QueuedRecord(trace[k].call))

\* the ticket queued while the other post was in flight is gone after the
\* other post succeeds
C23_Witness ==
    /\ Len(trace) >= 2
    /\ \E j, k \in DOMAIN trace :
           /\ InFlightTogether(j, k)
           /\ IsFallbackPost(trace[j].call) /\ IsSuccessfulPost(trace[k].call)
           /\ trace[j].call.data = TicketPayload /\ trace[k].call.data = IdPayload
           /\ Holds(trace[k].call.before, EP_TICKETS, QueuedRecord(trace[j].call))
           /\ k = Len(trace)
    /\ storage = EmptyStorage
    /\ pending = <<>>

\* the success completed first and the ticket queued after it is stored
C23_WitnessSurvives ==
    \E j, k \in DOMAIN trace :
        /\ InFlightTogether(j, k)
        /\ IsSuccessfulPost(trace[j].call) /\ IsFallbackPost(trace[k].call)
        /\ Loaded(storage, EP_TICKETS) = <<QueuedRecord(trace[k].call)>>

\* the fallback posts of the history, in completion order
FallbackPosts == SelectSeq(trace, LAMBDA t : IsFallbackPost(t.call))

LoadsSettle ==
    \E i \in 1..Len(pending) :
        \E response \in Responses(pending[i].op, pending[i].endpoint) :
            SettleTraced(i, response, clock)

NextLoads ==
    \/ loadVehicles
    \/ LoadsSettle

SpecLoads == Init /\ [][NextLoads]_vars

IsVehicleLoad(call) ==
    call.op = "get" /\ call.endpoint = EP_VEHICLES
    /\ call.caller \in {"initializeApp", "loadVehicles"}

\* the vehicles a vehicle-list load ends with: the server's list, or the
\* locally stored list when the request failed
VehiclesOf(call) ==
    IF call.response.ok THEN call.response.data[2]
    ELSE OrEmptyArray(getFromLocalStorage(call.after, EP_VEHICLES))

\* C25: no vehicle-list load in flight is cancelled: every load issued is
\* either still in flight or has completed, a failed one having run its
\* error branch; and the vehicle selects show the vehicles of the load that
\* completed last, whichever was issued first.
C25_LastResponseWins ==
    /\ Len(trace) + Len(pending) = calls
    /\ \A n \in DOMAIN trace :
           /\ IsVehicleLoad(trace[n].call)
           /\ trace[n].call.result = "throw"
              => trace[n].call.uiToasts
                     = <<Toast("error", "Failed to load vehicles. Using local data.")>>
    /\ trace # <<>>
       => vehicleSelect = populateVehicleSelects(VehiclesOf(trace[Len(trace)].call))

\* the load issued by the tab switch completed first with the server's list,
\* then the older startup load failed: the selects show the two locally
\* stored vehicles and not the server's one
C25_Witness ==
    /\ Len(trace) = 2
    /\ trace[1].position = 2 /\ trace[1].call.caller = "loadVehicles"
    /\ trace[1].inFlight # <<>>
    /\ trace[1].call.response.ok
    /\ trace[2].call.caller = "initializeApp"
    /\ ~trace[2].call.response.ok
    /\ Len(vehicleSelect) = 2
    /\ vehicleSelect # populateVehicleSelects(VehiclesOf(trace[1].call))


\* C26 (as stated): for every path, when a post falls back to the cache and
\* returns a synthesized identifier, some collection afterwards holds a
\* record carrying that identifier: the identifier-field lookup and the
\* collection-key lookup agree on whether the path is a known resource.
C26_ReturnedIdentifierIsStored ==
    (LastFailed("post", ConnectivityErrors) /\ last.result = "return")
    => /\ (mockKey(last.endpoint) # "") <=> (getStorageKey(last.endpoint) # NoKey)
       /\ \A f \in DOMAIN last.value[2] :
              \E e \in MappedEndpoints :
                  \E n \in DOMAIN Loaded(last.after, e) :
                      Field(Loaded(last.after, e)[n], "id") = last.value[2][f]


(* ---------------- the forms, submitted ---------------- *)
MaxSubmitCalls == 4     \* requests after which no further form is submitted

\* the forms the user submits: a valid one per form, and a vehicle form
\* whose capacity fails validation
SubmitVehicleForms ==
    {[vehicleName |-> IN_TEXT, numberPlate |-> PLATE_OK, capacity |-> capacity,
      route |-> IN_TEXT] : capacity \in {NUM_14, NUM_0}}
SubmitTicketForms ==
    {[ticketVehicleId |-> ID_V1, customerName |-> IN_TEXT,
      phoneNumber |-> PHONE_LOCAL, ticketRoute |-> IN_TEXT,
      ticketAmount |-> NUM_50, seatNumber |-> NUM_4, cashier |-> IN_TEXT]}
SubmitParcelForms ==
    {[parcelDescription |-> IN_TEXT, origin |-> IN_TEXT, destination |-> IN_TEXT,
      charge |-> NUM_50, senderName |-> IN_TEXT, senderPhone |-> PHONE_INTL,
      receiverName |-> IN_TEXT, receiverPhone |-> PHONE_INTL]}

\* A submit event of a form holding fields, up to the handler's first await:
\* an invalid form has its errors displayed and nothing is sent; a valid one
\* disables its submit button and posts its payload. A disabled submit
\* button submits nothing.
Submit(form, name, fields, result, endpoint, data, caller) ==
    /\ calls < MaxSubmitCalls /\ Len(pending) < MaxPending
    /\ ~dom[form].submitBtnLoading
    /\ formData' = [form |-> name, fields |-> fields]
    /\ validation' = [done |-> TRUE, isValid |-> result.isValid,
                      errors |-> result.errors]
    /\ IF ~result.isValid
       THEN /\ dom' = [dom EXCEPT ![form].values = fields,
                                  !.errorMessages = displayErrors(result.errors)]
            /\ UNCHANGED <<pending, calls>>
       ELSE /\ dom' = [dom EXCEPT ![form] = [values |-> fields,
                                             submitBtnLoading |-> TRUE]]
            /\ pending' = Append(pending, Request("post", endpoint, data, caller))
            /\ calls' = calls + 1
    /\ UNCHANGED <<storage, clock, containerFound, toasts, vehicleSelect,
                   reportDetails, generateReportBtnLoading, loadingSpinner, last,
                   trace>>

handleVehicleRegistration(fields) ==
    Submit("vehicleForm", "vehicle", fields, validateVehicleForm(fields),
           EP_VEHICLES, vehicleData(fields), "handleVehicleRegistration")

handleTicketIssuance(fields) ==
    Submit("ticketForm", "ticket", fields, validateTicketForm(fields),
           EP_TICKETS, ticketData(fields), "handleTicketIssuance")

handleParcelPosting(fields) ==
    Submit("parcelForm", "parcel", fields, validateParcelForm(fields),
           EP_PARCELS, parcelData(fields), "handleParcelPosting")

\* what the backend answers the requests of the handlers with: a posted
\* ticket or parcel comes back with the id of its receipt
STR_r1 == <<"r","1">>
ServerReceipt == Obj([receipt |-> Str(<<"R","C","P","T">>)])
ServerPosted(endpoint) ==
    Obj([f \in {mockKey(endpoint), "receipt_id"} |->
            IF f = "receipt_id" THEN Str(STR_r1) ELSE Str(<<"s","9">>)])

\* the responses a request of a handler can meet: the backend's answer (a
\* 404 for a receipt it does not have), or a timeout
SubmitResponses(r) ==
    {Failure(TimeoutError)}
    \cup (IF r.op = "post"
          THEN {Success(IF r.endpoint = EP_VEHICLES
                        THEN ServerData("post", EP_VEHICLES)
                        ELSE ServerPosted(r.endpoint))}
          ELSE IF r.endpoint = EP_VEHICLES
          THEN {Success(ServerData("get", EP_VEHICLES))}
          ELSE IF r.endpoint = EP_RECEIPTS \o <<"/">> \o STR_r1
          THEN {Success(ServerReceipt)}
          ELSE {Failure(HttpError(404))})

\* a change of the vehicle select, up to the handler's await: the default
\* option clears the details, a vehicle's option requests its occupancy
handleOccupancyCheck(vehicleId) ==
    /\ IF vehicleId = <<>>
       THEN /\ dom' = [dom EXCEPT !.occupancyDetails = [source |-> "none"]]
            /\ UNCHANGED <<pending, calls>>
       ELSE /\ Issue(Request("get", OccupancyPath(vehicleId),
                             [vehicleId |-> vehicleId], "handleOccupancyCheck"))
            /\ UNCHANGED dom
    /\ UNCHANGED <<storage, clock, containerFound, toasts, vehicleSelect,
                   reportDetails, generateReportBtnLoading, loadingSpinner, last,
                   formData, validation, trace>>

\* the values of the options of vehicleSelect, the default option included
VehicleOptions ==
    {<<>>} \cup {TemplateString(vehicleSelect[n].value) : n \in DOMAIN vehicleSelect}

\* a change of the period select, up to the handler's await
handleTransactionPeriodChange(period) ==
    /\ Issue(Request("get", TransactionsPath(period), [id |-> Undefined],
                     "handleTransactionPeriodChange"))
    /\ UNCHANGED <<storage, clock, containerFound, toasts, vehicleSelect,
                   reportDetails, generateReportBtnLoading, loadingSpinner, last,
                   formData, validation, trace, dom>>

STR_all == <<"a","l","l">>
ServerOccupancy ==
    Obj([capacity |-> Num(33), occupied_seats |-> Arr(<<Num(4)>>),
         available_seats |-> Arr(<<Num(1)>>)])
ServerTransactions == Obj([transactions |-> Arr(<<>>), total |-> Num(0)])

\* the responses a request of the controller can meet
ControllerResponses(r) ==
    IF r.caller = "handleOccupancyCheck"
    THEN {Success(ServerOccupancy), Failure(TimeoutError)}
    ELSE IF r.caller = "handleTransactionPeriodChange"
    THEN {Success(ServerTransactions), Failure(TimeoutError)}
    ELSE IF r.caller = "handleReportGeneration"
    THEN {Success(ServerReport), Failure(TimeoutError)}
    ELSE SubmitResponses(r)

ControllerSettle ==
    \E i \in 1..Len(pending) :
        \E response \in ControllerResponses(pending[i]) :
            \E now \in (IF ReadsClock(pending[i], response) THEN Nows ELSE {clock}) :
                Settle(i, response, now)

\* every operation of the controller that sends a request, while the
\* session may issue further requests
NextController ==
    \/ CanIssue /\ \E fields \in SubmitVehicleForms : handleVehicleRegistration(fields)
    \/ CanIssue /\ \E fields \in SubmitTicketForms : handleTicketIssuance(fields)
    \/ CanIssue /\ \E fields \in SubmitParcelForms : handleParcelPosting(fields)
    \/ loadVehicles
    \/ \E vehicleId \in VehicleOptions : handleOccupancyCheck(vehicleId)
    \/ handleTransactionPeriodChange(STR_all)
    \/ handleReportGeneration
    \/ ControllerSettle

SpecController == Init /\ [][NextController]_vars

(* ---------------- tickets and parcels submitted ---------------- *)
ReceiptsSettle ==
    \E i \in 1..Len(pending) :
        \E response \in SubmitResponses(pending[i]) :
            \E now \in (IF ReadsClock(pending[i], response) THEN Nows ELSE {clock}) :
                Settle(i, response, now)

NextReceipts ==
    \/ \E fields \in SubmitTicketForms : handleTicketIssuance(fields)
    \/ \E fields \in SubmitParcelForms : handleParcelPosting(fields)
    \/ ReceiptsSettle

SpecReceipts == Init /\ [][NextReceipts]_vars


\* the form, the failure message and the receipt caller of the two handlers
\* that fetch a receipt
ReceiptHandlers ==
    [handleTicketIssuance |->
        [form |-> "ticketForm", endpoint |-> EP_TICKETS,
         message |-> "Error: Failed to issue ticket",
         receipt |-> "handleTicketIssuance.receipt"],
     handleParcelPosting |->
        [form |-> "parcelForm", endpoint |-> EP_PARCELS,
         message |-> "Error: Failed to post parcel",
         receipt |-> "handleParcelPosting.receipt"]]

IsOffline(call) == ~call.response.ok /\ call.response.error \in ConnectivityErrors

EP_RECEIPTS_undefined == EP_RECEIPTS \o <<"/">> \o STR_undefined

\* the last call is a call of this caller that failed over
LastOffline(caller) == last.caller = caller /\ IsOffline(last)

\* the records of the collection that came from the form
Submitted(endpoint, fields) ==
    {n \in DOMAIN Loaded(storage, endpoint) :
        DOMAIN Loaded(storage, endpoint)[n] = DOMAIN fields \cup {"id"}}

\* C27: a valid ticket (or parcel) form submitted while its requests fail
\* with a connectivity failure has its record appended to the tickets
\* (parcels) collection, one record more with every submission, and the
\* receipt of the id the result lacks requested; that read re-raises and
\* the handler ends in its error branch: its error notification and no
\* success notification, and the form not reset.
C27_OfflineSubmissionEndsInError ==
    \A h \in DOMAIN ReceiptHandlers :
        LET H == ReceiptHandlers[h]
        IN  /\ LastOffline(h)
               => /\ Loaded(last.after, H.endpoint)
                        = Append(Loaded(last.before, H.endpoint), QueuedRecord(last))
                  /\ \E n \in DOMAIN pending :
                         pending[n] = Request("get", EP_RECEIPTS_undefined,
                                              last.value[2], H.receipt)
                  /\ dom[H.form].submitBtnLoading
            /\ (LastOffline(H.receipt) /\ Field(last.data, "receipt_id") = Undefined)
               => /\ last.endpoint = EP_RECEIPTS_undefined
                  /\ last.result = "throw"
                  /\ last.uiToasts = <<Toast("error", H.message)>>
                  /\ dom[H.form].values # NoErrors
                  /\ dom[H.form].submitBtnLoading
                     => \E n \in DOMAIN pending : pending[n].caller = h

\* two ticket forms were submitted one after the other, all their requests
\* failed with a timeout, and the second handler has ended
C27_Witness ==
    /\ LastOffline("handleTicketIssuance.receipt")
    /\ pending = <<>>
    /\ Cardinality(Submitted(EP_TICKETS, ticketData(dom.ticketForm.values))) = 2
    /\ ~dom.ticketForm.submitBtnLoading


(* ---------------- vehicles registered, with the history kept ---------------- *)
RegisterSettle ==
    \E i \in 1..Len(pending) :
        \E response \in SubmitResponses(pending[i]) :
            \E now \in (IF ReadsClock(pending[i], response) THEN Nows ELSE {clock}) :
                SettleTraced(i, response, now)

NextRegister ==
    \/ \E fields \in SubmitVehicleForms : handleVehicleRegistration(fields)
    \/ loadVehicles
    \/ RegisterSettle

SpecRegister == Init /\ [][NextRegister]_vars

\* the registrations completed before the n-th call of the history
RegistrationsBefore(n) ==
    {m \in 1..(n - 1) : /\ trace[m].call.op = "post"
                        /\ trace[m].call.caller = "handleVehicleRegistration"}

\* the registration whose handler issued the refresh that completed n-th
RegistrationOf(n) ==
    CHOOSE m \in RegistrationsBefore(n) : \A k \in RegistrationsBefore(n) : k <= m

\* the call that completed last is the refresh of a registration, both
\* having met a connectivity failure
OfflineRefreshAfterOfflineRegistration ==
    /\ trace # <<>>
    /\ trace[Len(trace)].call.caller = "handleVehicleRegistration.loadVehicles"
    /\ IsOffline(trace[Len(trace)].call)
    /\ IsOffline(trace[RegistrationOf(Len(trace))].call)

\* C28: when a vehicle registration fell back to the local cache and the
\* refresh of the vehicle list that follows it fails over too, the vehicle
\* selects hold one option per locally queued vehicle, in order, the last
\* one for the vehicle just registered, its value the vehicle_id the
\* registration returned.
C28_RefreshShowsQueuedVehicle ==
    OfflineRefreshAfterOfflineRegistration
    => LET registration == trace[RegistrationOf(Len(trace))].call
           queued == Loaded(storage, EP_VEHICLES)
       IN  /\ Len(vehicleSelect) = Len(queued)
           /\ \A i \in DOMAIN queued : vehicleSelect[i].value = Field(queued[i], "id")
           /\ queued[Len(queued)] = QueuedRecord(registration)
           /\ vehicleSelect[Len(vehicleSelect)].value
                  = registration.value[2].vehicle_id

\* two vehicles were queued by an earlier session; a third is registered
\* offline and the refresh shows three options
C28_Witness ==
    /\ OfflineRefreshAfterOfflineRegistration
    /\ Len(vehicleSelect) = 3
    /\ vehicleSelect[3].text = <<Str(IN_TEXT), Str(PLATE_OK)>>
    /\ dom.vehicleForm.values = NoErrors


\* C29: in every state the operations of the controller reach, the receipts
\* and reports collections are absent; so a read of '/reports' that meets a
\* connectivity failure finds nothing cached and re-raises.
C29_ReceiptsAndReportsNeverCached ==
    /\ \A e \in {EP_RECEIPTS, EP_REPORTS} :
           /\ ~storage[getStorageKey(e)].present
           /\ getFromLocalStorage(storage, e) = Null
    /\ (last.op = "get" /\ last.endpoint = EP_REPORTS /\ IsOffline(last))
       => /\ getFromLocalStorage(last.before, EP_REPORTS) = Null
          /\ last.result = "throw"

\* the report was requested while other collections were cached, and the
\* request timed out
C29_Witness ==
    /\ last.caller = "handleReportGeneration"
    /\ last.endpoint = EP_REPORTS /\ IsOffline(last)
    /\ last.result = "throw"
    /\ storage[getStorageKey(EP_TICKETS)].present
    /\ reportDetails.source = "local"


(* ---------------- the ApiClient without the offline fallback ---------------- *)
\* handleError of the plain variant: a toast for a 500 and for a 404 only
plainHandleError(found, error) ==
    IF error.hasResponse /\ error.status = 500
    THEN show(found, Toast("error", "Server error. Please try again later."))
    ELSE IF error.hasResponse /\ error.status = 404
    THEN show(found, Toast("error", "Resource not found."))
    ELSE <<>>

\* get and post of the plain variant: the payload, or handleError and the
\* caught error re-raised; localStorage is never touched
plainGet(found, st, endpoint, response) ==
    IF response.ok
    THEN Outcome("return", response.data, "none", <<>>, 0, 0, 0, st)
    ELSE Outcome("throw", Undefined, "none",
                 plainHandleError(found, response.error), 0, 0, 0, st)

plainPost(found, st, endpoint, data, response) ==
    IF response.ok
    THEN Outcome("return", response.data, "none", <<>>, 0, 0, 0, st)
    ELSE Outcome("throw", Undefined, "none",
                 plainHandleError(found, response.error), 0, 0, 0, st)

\* what the plain variant makes of the request and response of the last call
PlainLast ==
    IF last.op = "get"
    THEN plainGet(containerFound, last.before, last.endpoint, last.response)
    ELSE plainPost(containerFound, last.before, last.endpoint, last.data,
                   last.response)

\* the last call met no connectivity failure
LastOnline ==
    /\ last.op # "none"
    /\ last.response.ok \/ last.response.error \notin ConnectivityErrors

\* C30: a call that meets no connectivity failure ends in the offline-capable
\* ApiClient as it ends in the plain one, whatever the cache holds: the same
\* payload returned on success, the caught error re-raised on failure.
C30_SameResultWithoutConnectivityFailure ==
    LastOnline
    => /\ last.result = PlainLast.result
       /\ last.value = PlainLast.value
       /\ last.result = IF last.response.ok THEN "return" ELSE "throw"

\* a post answered by the server while its collection held queued records:
\* the variants differ in what they leave in localStorage only
C30_Witness ==
    /\ LastOnline
    /\ last.op = "post" /\ last.response.ok
    /\ last.value = last.response.data
    /\ last.after # last.before
    /\ PlainLast.storage = last.before

====
